---- MODULE Spec2Model ----
(***************************************************************************)
(* Model of the duplicate-detection scripts under script/:                 *)
(*   github-track-duplicate-bot-effectiveness.py  (outcome classifier)     *)
(*   github-check-new-issue-for-duplicates.py     (matcher, assembler)     *)
(* Strings of the source that the code inspects character by character     *)
(* (area labels, comment bodies) are sequences of one-character strings;   *)
(* strings that are only compared or concatenated are TLA+ strings.        *)
(***************************************************************************)
EXTENDS Integers, Sequences, FiniteSets, TLC

VARIABLES
    board,      \* the project board: sequence of items, item id = index
    call,       \* what the last classify_closed call / classify_open iteration saw and did
    sweep,      \* position and counters of the classify_open loop
    ncalls,     \* number of script invocations so far
    args,       \* inputs of the pure function under check
    ret         \* its result

vars == <<board, call, sweep, ncalls, args, ret>>

(* ---------------------------------------------------------------------- *)
(* Bounds                                                                  *)
(* ---------------------------------------------------------------------- *)
\* issues classified in one behaviour: classify_closed runs plus classify_open
\* loop iterations
MaxCalls == 2

IssueNumbers == {1, 2}
Logins == {"alice", "bob"}
Authors == {"alice"}
\* what the team-membership endpoint answers for a user: the state of the
\* membership, or 404
Memberships == {"active", "404"}
StateReasons == {"duplicate", "not_planned", ""}
TypeNames == {"Bug", "Crash", "Feature"}
CanonicalTargets == {0, 20, 30}

(* ---------------------------------------------------------------------- *)
(* Python values                                                           *)
(* ---------------------------------------------------------------------- *)
\* None for an issue number (find_canonical_among, find_project_item)
None == 0
\* None for bot_comment_time
NoTime == 0 - 1

(* ---------------------------------------------------------------------- *)
(* Constants of github-track-duplicate-bot-effectiveness.py                *)
(* ---------------------------------------------------------------------- *)
VALID_CLOSED_AS_VALUES == {"duplicate", "not_planned", "completed"}

\* newest first; instants are abstract (v1 deployed at 1, v2 at 2)
BOT_VERSION_TIMELINE ==
    << [version |-> "v2", deployed |-> 2],
       [version |-> "v1", deployed |-> 1] >>

\* the loop with timestamp > deployed as its test
RECURSIVE FirstDeployedBefore(_, _, _)
FirstDeployedBefore(timeline, timestamp, i) ==
    IF i > Len(timeline)
    THEN timeline[Len(timeline)].version
    ELSE IF timestamp > timeline[i].deployed
         THEN timeline[i].version
         ELSE FirstDeployedBefore(timeline, timestamp, i + 1)

\* the loop of bot_version_for_time from entry i on, and its fallback
RECURSIVE FirstDeployedAtOrBefore(_, _, _)
FirstDeployedAtOrBefore(timeline, timestamp, i) ==
    IF i > Len(timeline)
    THEN timeline[Len(timeline)].version
    ELSE IF timestamp >= timeline[i].deployed
         THEN timeline[i].version
         ELSE FirstDeployedAtOrBefore(timeline, timestamp, i + 1)

bot_version_for_time(date_string) ==
    FirstDeployedAtOrBefore(BOT_VERSION_TIMELINE, date_string, 1)

\* is_staff_member that treats every error answer, and so every user, as non-staff
is_staff_member_never(membership) == FALSE

\* is_staff_member: state == "active"; a 404 answer is False
is_staff_member(membership) ==
    IF membership = "404" THEN FALSE ELSE membership = "active"

(* ---------------------------------------------------------------------- *)
(* The detector comment and parse_suggested_issues                         *)
(* ---------------------------------------------------------------------- *)
Digits == {"0", "1", "2", "3", "4", "5", "6", "7", "8", "9"}

DigitValue(c) ==
    CASE c = "0" -> 0 [] c = "1" -> 1 [] c = "2" -> 2 [] c = "3" -> 3
      [] c = "4" -> 4 [] c = "5" -> 5 [] c = "6" -> 6 [] c = "7" -> 7
      [] c = "8" -> 8 [] c = "9" -> 9

\* int(match) of a string of decimal digits
RECURSIVE int(_)
int(digits) ==
    IF digits = <<>>
    THEN 0
    ELSE 10 * int(SubSeq(digits, 1, Len(digits) - 1)) + DigitValue(digits[Len(digits)])

\* the greedy \d+ group: the digits of line from position i on
RECURSIVE DigitRun(_, _)
DigitRun(line, i) ==
    IF i <= Len(line) /\ line[i] \in Digits
    THEN <<line[i]>> \o DigitRun(line, i + 1)
    ELSE <<>>

\* re.findall(r"^- #(\d+)", ..., re.MULTILINE) on one line
BulletMatch(line) ==
    /\ Len(line) >= 4
    /\ line[1] = "-"
    /\ line[2] = " "
    /\ line[3] = "#"
    /\ line[4] \in Digits

RECURSIVE parse_suggested_issues(_)
parse_suggested_issues(comment_body) ==
    IF comment_body = <<>>
    THEN <<>>
    ELSE (IF BulletMatch(Head(comment_body))
          THEN << int(DigitRun(Head(comment_body), 4)) >>
          ELSE <<>>) \o parse_suggested_issues(Tail(comment_body))

\* comment bodies (sequences of lines) the issue store can return
ProseLine == <<"d", "u", "p", ":">>
BodySuggestsTwo ==
    << ProseLine, <<>>, <<"-", " ", "#", "1", "0">>, <<"-", " ", "#", "2", "0">> >>
BodyWithoutBullets ==
    << ProseLine, <<" ", "-", " ", "#", "1", "0">>, <<"-", "#", "2", "0">>,
       <<"-", " ", "#", "x">> >>

\* return values of get_bot_comment_with_time
NoBotComment == [present |-> FALSE, body |-> <<>>, created_at |-> NoTime]
BotComment(body, created_at) ==
    [present |-> TRUE, body |-> body, created_at |-> created_at]
BotComments ==
    {NoBotComment, BotComment(BodySuggestsTwo, 0), BotComment(BodySuggestsTwo, 1),
     BotComment(BodyWithoutBullets, 2)}

(* ---------------------------------------------------------------------- *)
(* The project board                                                       *)
(* ---------------------------------------------------------------------- *)
\* get_project_config: field name -> option names of a single-select field,
\* or {} for a text field
ProjectFields ==
    ("Outcome" :> {"Success", "Assist", "Noise", "Missed opportunity"}) @@
    ("Status" :> {"Auto-classified", "Needs review"}) @@
    ("Closed as" :> {"duplicate", "not_planned", "completed"}) @@
    ("Notes" :> {}) @@
    ("Bot version" :> {"v1", "v2"})

TextFields == {"Notes"}

\* The board keeps, per issue, the items whose content is that issue
\* (projectItems of the issue node, restricted to this project).
NewItem ==
    ("Outcome" :> "") @@ ("Status" :> "") @@ ("Closed as" :> "") @@
    ("Notes" :> "") @@ ("Bot version" :> "")

\* find_project_item that never finds the issue's item
find_project_item_none(b, issue_node_id) == None

\* index of the issue's first item on this board, or None
find_project_item(b, issue_node_id) ==
    IF b[issue_node_id] = <<>> THEN None ELSE 1

add_project_item(b, issue_node_id) ==
    [b EXCEPT ![issue_node_id] = Append(@, NewItem)]

set_field_value(b, issue_node_id, item_id, field_name, value) ==
    IF field_name \notin DOMAIN ProjectFields
    THEN b
    ELSE IF field_name \notin TextFields /\ value \notin ProjectFields[field_name]
         THEN b
         ELSE [b EXCEPT ![issue_node_id][item_id][field_name] = value]

\* the record a classifier hands to add_or_update_project_item
NoRecord ==
    [outcome |-> "", closed_as |-> "", status |-> "", notes |-> "",
     bot_comment_time |-> NoTime]

\* the set_field_value calls of add_or_update_project_item, in order
FieldWrites(rec) ==
    << <<"Outcome", rec.outcome>>, <<"Status", rec.status>> >>
    \o (IF rec.closed_as # "" /\ rec.closed_as \in VALID_CLOSED_AS_VALUES
        THEN << <<"Closed as", rec.closed_as>> >> ELSE <<>>)
    \o (IF rec.notes # ""
        THEN << <<"Notes", rec.notes>> >> ELSE <<>>)
    \o (IF rec.bot_comment_time # NoTime
        THEN << <<"Bot version", bot_version_for_time(rec.bot_comment_time)>> >>
        ELSE <<>>)

RECURSIVE ApplyWrites(_, _, _, _)
ApplyWrites(b, issue_node_id, item_id, writes) ==
    IF writes = <<>>
    THEN b
    ELSE ApplyWrites(set_field_value(b, issue_node_id, item_id,
                                     Head(writes)[1], Head(writes)[2]),
                     issue_node_id, item_id, Tail(writes))

\* fail names the collaborator that is failing during the run ("" for none):
\* its first call raises.
BoardResult(b, writes, invoked, raised) ==
    [board |-> b, writes |-> writes, invoked |-> invoked, raised |-> raised]

add_or_update_project_item(b, issue_node_id, rec, fail) ==
    LET found == find_project_item(b, issue_node_id)
        item_id == IF found # None THEN found ELSE Len(b[issue_node_id]) + 1
        b1 == IF found # None THEN b ELSE add_project_item(b, issue_node_id)
        writes == FieldWrites(rec)
    IN  IF fail = "find_project_item"
        THEN BoardResult(b, <<>>, {"find_project_item"}, "find_project_item")
        ELSE IF found = None /\ fail = "add_project_item"
        THEN BoardResult(b, <<>>, {"find_project_item", "add_project_item"},
                         "add_project_item")
        ELSE IF fail = "set_field_value"
        THEN BoardResult(b1, <<>>,
                         {"find_project_item", "set_field_value"}
                            \cup (IF found = None THEN {"add_project_item"} ELSE {}),
                         "set_field_value")
        ELSE BoardResult(ApplyWrites(b1, issue_node_id, item_id, writes), writes,
                         {"find_project_item", "set_field_value"}
                            \cup (IF found = None THEN {"add_project_item"} ELSE {}),
                         "")

(* ---------------------------------------------------------------------- *)
(* find_canonical_among                                                    *)
(* ---------------------------------------------------------------------- *)
\* canonical is the issue whose timeline carries the MarkedAsDuplicateEvent
\* for the issue being classified (None if there is no such event).
RECURSIVE FirstCandidateMarked(_, _)
FirstCandidateMarked(candidates, canonical) ==
    IF candidates = <<>>
    THEN None
    ELSE IF Head(candidates) = canonical
         THEN Head(candidates)
         ELSE FirstCandidateMarked(Tail(candidates), canonical)

\* find_canonical_among that takes any marked candidate timeline as a match
find_canonical_among_any(candidates, canonical) ==
    IF candidates = <<>> \/ canonical = None THEN None ELSE Head(candidates)

find_canonical_among(candidates, canonical) ==
    IF candidates = <<>> THEN None ELSE FirstCandidateMarked(candidates, canonical)

\* outcomes of the GraphQL request of find_canonical_among:
\*   "ok"                the response carries the timelines
\*   "RequestException"  transport / HTTP error (raise_for_status)
\*   "RuntimeError"      GraphQL errors without a data key
\*   "TypeError"         GraphQL errors with "data": null, ignored as partial,
\*                       then data["repository"] fails
Lookups == {"ok", "RequestException", "RuntimeError", "TypeError"}
CaughtLookupErrors == {"RequestException", "RuntimeError"}

(* ---------------------------------------------------------------------- *)
(* The classifiers                                                         *)
(* ---------------------------------------------------------------------- *)
RECURSIVE JoinNumbers(_)
JoinNumbers(numbers) ==
    IF numbers = <<>> THEN ""
    ELSE IF Len(numbers) = 1 THEN "#" \o ToString(Head(numbers))
    ELSE "#" \o ToString(Head(numbers)) \o ", " \o JoinNumbers(Tail(numbers))

\* what a classifier decided: the record for the board, the collaborators
\* it called on the way, and the call that raised ("" if none)
Decision(rec, invoked, raised, lookup) ==
    [record |-> rec, invoked |-> invoked, raised |-> raised, lookup |-> lookup]

\* classify_as_success that trusts every author close as a confirmed duplicate
classify_as_success_auto(bot_comment, state_reason) ==
    Decision([outcome |-> "Success", closed_as |-> state_reason,
              status |-> "Auto-classified", notes |-> "",
              bot_comment_time |-> bot_comment.created_at],
             {}, "", "")

classify_as_success(bot_comment, state_reason) ==
    Decision([outcome |-> "Success",
              closed_as |-> state_reason,
              status |-> IF state_reason = "duplicate"
                         THEN "Auto-classified" ELSE "Needs review",
              notes |-> IF state_reason = "duplicate"
                        THEN "" ELSE "Author closed as " \o state_reason,
              bot_comment_time |-> bot_comment.created_at],
             {}, "", "")

\* classify_as_assist without the early return for an empty suggestion list
classify_as_assist_always_looks_up(bot_comment, canonical, lookup) ==
    LET suggested == parse_suggested_issues(bot_comment.body)
        original == IF lookup = "ok"
                    THEN find_canonical_among(suggested, canonical)
                    ELSE None
    IN  IF lookup \notin CaughtLookupErrors \cup {"ok"}
        THEN Decision(NoRecord, {"find_canonical_among"}, "find_canonical_among", lookup)
        ELSE Decision([outcome |-> "Assist", closed_as |-> "duplicate",
                       status |-> IF original # None
                                  THEN "Auto-classified" ELSE "Needs review",
                       notes |-> IF original # None
                                 THEN ""
                                 ELSE "Bot suggested " \o JoinNumbers(suggested)
                                      \o "; none matched as canonical",
                       bot_comment_time |-> bot_comment.created_at],
                      {"find_canonical_among"}, "", lookup)

classify_as_assist(bot_comment, canonical, lookup) ==
    LET suggested == parse_suggested_issues(bot_comment.body)
        original == IF lookup = "ok"
                    THEN find_canonical_among(suggested, canonical)
                    ELSE None
    IN  IF suggested = <<>>
        THEN Decision([outcome |-> "Assist", closed_as |-> "duplicate",
                       status |-> "Needs review",
                       notes |-> "Could not parse bot suggestions",
                       bot_comment_time |-> bot_comment.created_at],
                      {}, "", "")
        ELSE IF lookup \notin CaughtLookupErrors \cup {"ok"}
        THEN Decision(NoRecord, {"find_canonical_among"}, "find_canonical_among", lookup)
        ELSE Decision([outcome |-> "Assist", closed_as |-> "duplicate",
                       status |-> IF original # None
                                  THEN "Auto-classified" ELSE "Needs review",
                       notes |-> IF original # None
                                 THEN ""
                                 ELSE "Bot suggested " \o JoinNumbers(suggested)
                                      \o "; none matched as canonical",
                       bot_comment_time |-> bot_comment.created_at],
                      {"find_canonical_among"}, "", lookup)

\* classify_non_author_closed that counts every non-duplicate close as settled noise
classify_non_author_closed_auto(bot_comment, state_reason, canonical, lookup) ==
    IF state_reason = "duplicate"
    THEN classify_as_assist(bot_comment, canonical, lookup)
    ELSE Decision([outcome |-> "Noise",
                   closed_as |-> state_reason,
                   status |-> "Auto-classified",
                   notes |-> "",
                   bot_comment_time |-> bot_comment.created_at],
                  {}, "", "")

classify_non_author_closed(bot_comment, state_reason, canonical, lookup) ==
    IF state_reason = "duplicate"
    THEN classify_as_assist(bot_comment, canonical, lookup)
    ELSE Decision([outcome |-> "Noise",
                   closed_as |-> state_reason,
                   status |-> "Needs review",
                   notes |-> "Closed by staff/triager as " \o state_reason
                             \o ", not duplicate",
                   bot_comment_time |-> bot_comment.created_at],
                  {}, "", "")

\* classify_as_missed_opportunity that asks for a review
classify_as_missed_opportunity_review ==
    Decision([outcome |-> "Missed opportunity", closed_as |-> "duplicate",
              status |-> "Needs review", notes |-> "",
              bot_comment_time |-> NoTime],
             {}, "", "")

classify_as_missed_opportunity ==
    Decision([outcome |-> "Missed opportunity", closed_as |-> "duplicate",
              status |-> "Auto-classified", notes |-> "",
              bot_comment_time |-> NoTime],
             {}, "", "")

\* state_reason = state_reason or "unknown"
DefaultReason(state_reason) ==
    IF state_reason = "" THEN "unknown" ELSE state_reason

\* classify_closed up to the call of add_or_update_project_item
classify_closed(closer_login, state_reason, author, membership, bot_comment, canonical, lookup, fail) ==
    LET bot_commented == bot_comment.present
        closer_is_author == closer_login = author
    IN  IF fail = "fetch_issue"
        THEN Decision(NoRecord, {"fetch_issue"}, "fetch_issue", "")
        ELSE IF fail = "is_staff_member"
        THEN Decision(NoRecord, {"fetch_issue", "is_staff_member"}, "is_staff_member", "")
        ELSE IF is_staff_member(membership)
        THEN Decision(NoRecord, {"fetch_issue", "is_staff_member"}, "", "")
        ELSE IF fail = "get_bot_comment_with_time"
        THEN Decision(NoRecord,
                      {"fetch_issue", "is_staff_member", "get_bot_comment_with_time"},
                      "get_bot_comment_with_time", "")
        ELSE LET d == IF bot_commented /\ closer_is_author
                      THEN classify_as_success(bot_comment, state_reason)
                      ELSE IF bot_commented /\ ~closer_is_author
                      THEN classify_non_author_closed(bot_comment, state_reason,
                                                      canonical, lookup)
                      ELSE IF ~bot_commented /\ state_reason = "duplicate"
                      THEN classify_as_missed_opportunity
                      ELSE Decision(NoRecord, {}, "", "")
             IN  [d EXCEPT !.invoked = @ \cup {"fetch_issue", "is_staff_member",
                                               "get_bot_comment_with_time"}]

(* ---------------------------------------------------------------------- *)
(* State machine of the effectiveness tracker                              *)
(* ---------------------------------------------------------------------- *)
CallRecord(op, issue_number, closer_login, state_reason, author, membership, type_name, bot_comment, canonical, lookup, on_board, rec, invoked, writes, raised) ==
    [op |-> op, issue |-> issue_number, closer |-> closer_login,
     state_reason |-> state_reason, author |-> author, membership |-> membership,
     type_name |-> type_name, bot_comment |-> bot_comment,
     canonical |-> canonical, lookup |-> lookup, on_board |-> on_board,
     record |-> rec, invoked |-> invoked, writes |-> writes, raised |-> raised]

NoCall ==
    CallRecord("", None, "", "", "", "", "", NoBotComment, None, "", FALSE,
               NoRecord, {}, <<>>, "")

NoSweep ==
    [active |-> FALSE, results |-> <<>>, next |-> 1,
     added |-> 0, skipped |-> 0, errors |-> 0]

EmptyBoard == [issue_node_id \in IssueNumbers |-> <<>>]

TrackerInit ==
    /\ board = EmptyBoard
    /\ call = NoCall
    /\ sweep = NoSweep
    /\ ncalls = 0

Init ==
    /\ TrackerInit
    /\ args = <<>>
    /\ ret = <<>>

\* the collaborators whose failure a classify_closed run can meet
ClosedFailures ==
    {"", "fetch_issue", "is_staff_member", "get_bot_comment_with_time",
     "find_project_item", "add_project_item", "set_field_value"}

\* One run of: classify-closed <issue_number> <closer_login> <state_reason>.
\* A fact about the issue that the run never reads is left at its empty value.
ClassifyClosed ==
    /\ ~sweep.active
    /\ ncalls < MaxCalls
    /\ \E issue_number \in IssueNumbers, closer_login \in Logins,
          reason \in StateReasons, fail \in ClosedFailures :
       \E author \in (IF fail = "fetch_issue" THEN {""} ELSE Authors),
          membership \in (IF fail \in {"fetch_issue", "is_staff_member"}
                          THEN {""} ELSE Memberships) :
       \E bot_comment \in (IF \/ fail \in {"fetch_issue", "is_staff_member",
                                           "get_bot_comment_with_time"}
                              \/ is_staff_member(membership)
                           THEN {NoBotComment} ELSE BotComments),
          state_reason \in {DefaultReason(reason)},
          on_board \in {find_project_item(board, issue_number) # None} :
       \E looks_up \in {"find_canonical_among" \in
                            classify_closed(closer_login, state_reason, author, membership,
                                            bot_comment, None, "ok", fail).invoked} :
       \E canonical \in (IF looks_up THEN CanonicalTargets ELSE {None}),
          lookup \in (IF looks_up THEN Lookups ELSE {"ok"}) :
       \E d \in {classify_closed(closer_login, state_reason, author, membership,
                                 bot_comment, canonical, lookup, fail)} :
       \E r \in {IF d.record = NoRecord
                 THEN BoardResult(board, <<>>, {}, d.raised)
                 ELSE add_or_update_project_item(board, issue_number, d.record, fail)} :
          \* the failing collaborator is one the run calls
          /\ fail \in {"", r.raised}
          /\ board' = r.board
          /\ call' = CallRecord("classify_closed", issue_number, closer_login, reason,
                                author, membership, "", bot_comment,
                                canonical, d.lookup, on_board,
                                d.record, d.invoked \cup r.invoked,
                                r.writes, r.raised)
    /\ ncalls' = ncalls + 1
    /\ UNCHANGED <<sweep, args, ret>>

\* sequences of distinct issue numbers, as a search returns them
RECURSIVE DistinctSeqs(_, _)
DistinctSeqs(S, n) ==
    IF n = 0
    THEN {<<>>}
    ELSE LET shorter == DistinctSeqs(S, n - 1)
         IN  shorter \cup
             UNION {{Append(q, x) : x \in S \ {q[i] : i \in 1..Len(q)}} : q \in shorter}

\* classify-open: the search, before the loop
ClassifyOpenStart ==
    /\ ~sweep.active
    /\ \E results \in DistinctSeqs(IssueNumbers, MaxCalls - ncalls),
          fail \in {"", "github_search_issues"} :
        IF fail = "github_search_issues"
        THEN /\ sweep' = NoSweep
             /\ call' = [NoCall EXCEPT !.op = "classify_open",
                                       !.invoked = {"github_search_issues"},
                                       !.raised = "github_search_issues"]
        ELSE /\ sweep' = [NoSweep EXCEPT !.active = TRUE, !.results = results]
             /\ call' = [NoCall EXCEPT !.op = "classify_open",
                                       !.invoked = {"github_search_issues"}]
    /\ UNCHANGED <<board, ncalls, args, ret>>

\* the record of classify_open with the status left for a reviewer
NoiseRecord_needs_review(bot_comment) ==
    [outcome |-> "Noise", closed_as |-> "", status |-> "Needs review",
     notes |-> "", bot_comment_time |-> bot_comment.created_at]

\* the record classify_open hands to add_or_update_project_item
NoiseRecord(bot_comment) ==
    [outcome |-> "Noise", closed_as |-> "", status |-> "Auto-classified",
     notes |-> "", bot_comment_time |-> bot_comment.created_at]

\* the skip_reason chain and the board write of one loop iteration
classify_open_item(b, number, type_name, membership, bot_comment, fail) ==
    LET noise == NoiseRecord(bot_comment)
        out(kind, rec, r) == [kind |-> kind, record |-> rec, result |-> r]
    IN  IF type_name \notin {"Bug", "Crash"}
        THEN out("skipped", NoRecord, BoardResult(b, <<>>, {}, ""))
        ELSE IF fail = "is_staff_member"
        THEN out("error", NoRecord, BoardResult(b, <<>>, {"is_staff_member"}, fail))
        ELSE IF is_staff_member(membership)
        THEN out("skipped", NoRecord, BoardResult(b, <<>>, {"is_staff_member"}, ""))
        ELSE IF fail = "find_project_item"
        THEN out("error", NoRecord,
                 BoardResult(b, <<>>, {"is_staff_member", "find_project_item"}, fail))
        ELSE IF find_project_item(b, number) # None
        THEN out("skipped", NoRecord,
                 BoardResult(b, <<>>, {"is_staff_member", "find_project_item"}, ""))
        ELSE IF fail = "get_bot_comment_with_time"
        THEN out("error", NoRecord,
                 BoardResult(b, <<>>, {"is_staff_member", "find_project_item",
                                      "get_bot_comment_with_time"}, fail))
        ELSE IF ~bot_comment.present
        THEN out("skipped", NoRecord,
                 BoardResult(b, <<>>, {"is_staff_member", "find_project_item",
                                      "get_bot_comment_with_time"}, ""))
        ELSE LET r == add_or_update_project_item(b, number, noise, fail)
             IN  out(IF r.raised = "" THEN "added" ELSE "error", noise,
                     [r EXCEPT !.invoked = @ \cup {"is_staff_member", "find_project_item",
                                                   "get_bot_comment_with_time"}])

\* the loop without its try: the exception of an iteration ends the sweep
CountResult_uncaught(s, kind) ==
    IF kind = "error"
    THEN NoSweep
    ELSE [s EXCEPT !.next = @ + 1,
                   !.added = IF kind = "added" THEN @ + 1 ELSE @,
                   !.skipped = IF kind = "skipped" THEN @ + 1 ELSE @]

\* the counters after one iteration, and the move to the next result
CountResult(s, kind) ==
    [s EXCEPT !.next = @ + 1,
              !.added = IF kind = "added" THEN @ + 1 ELSE @,
              !.skipped = IF kind = "skipped" THEN @ + 1 ELSE @,
              !.errors = IF kind = "error" THEN @ + 1 ELSE @]

\* the collaborators whose failure a loop iteration can meet
OpenItemFailures ==
    {"", "is_staff_member", "get_bot_comment_with_time",
     "find_project_item", "add_project_item", "set_field_value"}

\* classify-open: one iteration of the loop over the search results
ClassifyOpenItem ==
    /\ sweep.active
    /\ sweep.next <= Len(sweep.results)
    /\ \E number \in {sweep.results[sweep.next]},
          type_name \in TypeNames, author \in Authors, fail \in OpenItemFailures :
       \E membership \in (IF type_name \notin {"Bug", "Crash"} \/ fail = "is_staff_member"
                          THEN {""} ELSE Memberships),
          on_board \in {find_project_item(board, number) # None} :
       \E bot_comment \in (IF \/ type_name \notin {"Bug", "Crash"}
                              \/ fail \in {"is_staff_member", "find_project_item",
                                           "get_bot_comment_with_time"}
                              \/ is_staff_member(membership)
                              \/ on_board
                           THEN {NoBotComment} ELSE BotComments) :
       \E o \in {classify_open_item(board, number, type_name, membership, bot_comment,
                                    fail)} :
          \* the failing collaborator is one the iteration calls
          /\ fail \in {"", o.result.raised}
          /\ board' = o.result.board
          /\ call' = CallRecord("classify_open", number, "", "", author, membership,
                                type_name, bot_comment, None, "", on_board,
                                o.record, o.result.invoked, o.result.writes,
                                o.result.raised)
          /\ sweep' = CountResult(sweep, o.kind)
    /\ ncalls' = ncalls + 1
    /\ UNCHANGED <<args, ret>>

\* classify-open: the loop is over, the totals are printed
ClassifyOpenDone ==
    /\ sweep.active
    /\ sweep.next > Len(sweep.results)
    /\ sweep' = NoSweep
    /\ UNCHANGED <<board, call, ncalls, args, ret>>

Next ==
    \/ ClassifyClosed
    \/ ClassifyOpenStart
    \/ ClassifyOpenItem
    \/ ClassifyOpenDone

Spec == Init /\ [][Next]_vars

(* ---------------------------------------------------------------------- *)
(* Properties of classify_closed and classify_open                         *)
(* ---------------------------------------------------------------------- *)
Range(q) == {q[i] : i \in 1..Len(q)}

BoardCalls == {"find_project_item", "add_project_item", "set_field_value"}

\* the last run was a classify_closed that returned normally, for a non-staff author
ClosedNonStaff ==
    /\ call.op = "classify_closed"
    /\ call.raised = ""
    /\ call.membership \in Memberships
    /\ call.membership # "active"

\* ... which found a detector comment on the issue
ClosedWithComment == ClosedNonStaff /\ call.bot_comment.present

\* ... and closer and reason put it in the Assist case
AssistCase ==
    /\ ClosedWithComment
    /\ call.closer # call.author
    /\ call.state_reason = "duplicate"

\* a line of the comment body reads "- #" and a digit
HasSuggestionLine(body) ==
    \E i \in 1..Len(body) :
        /\ Len(body[i]) >= 4
        /\ SubSeq(body[i], 1, 3) = <<"-", " ", "#">>
        /\ body[i][4] \in Digits

\* C1: a non-staff author closing their own issue after a detector comment is
\* always recorded as Success: Auto-classified without notes when the reason
\* is "duplicate", Needs review with a note naming the actual reason
\* ("unknown" for an empty one) otherwise.
C1_AuthorCloseIsSuccess ==
    (ClosedWithComment /\ call.closer = call.author) =>
        /\ call.record.outcome = "Success"
        /\ call.writes[1] = <<"Outcome", "Success">>
        /\ board[call.issue][1]["Outcome"] = "Success"
        /\ (call.state_reason = "duplicate") =>
              /\ call.record.status = "Auto-classified"
              /\ call.record.notes = ""
              /\ call.writes[2] = <<"Status", "Auto-classified">>
              /\ \A i \in 1..Len(call.writes) : call.writes[i][1] # "Notes"
        /\ (call.state_reason # "duplicate") =>
              LET actual == IF call.state_reason = "" THEN "unknown"
                            ELSE call.state_reason
              IN  /\ call.record.status = "Needs review"
                  /\ call.record.notes = "Author closed as " \o actual
                  /\ call.writes[2] = <<"Status", "Needs review">>
                  /\ <<"Notes", "Author closed as " \o actual>> \in Range(call.writes)
                  /\ board[call.issue][1]["Notes"] = "Author closed as " \o actual

C1_Witness ==
    /\ ClosedWithComment
    /\ call.closer = call.author
    /\ call.state_reason = ""
    /\ board[call.issue][1]["Status"] = "Needs review"
    /\ board[call.issue][1]["Notes"] = "Author closed as unknown"

\* C2 as stated: in the Assist case with parsed suggestions the record is
\* Assist, and Auto-classified exactly when the canonical issue is among the
\* suggested ids.
C2_AutoIffCanonicalSuggested ==
    (AssistCase /\ parse_suggested_issues(call.bot_comment.body) # <<>>) =>
        /\ call.record.outcome = "Assist"
        /\ (call.record.status = "Auto-classified")
              <=> (call.canonical \in Range(parse_suggested_issues(call.bot_comment.body)))
        /\ call.record.status \in {"Auto-classified", "Needs review"}

\* C2 amended: in the Assist case with parsed suggestions the record is
\* Assist, and Auto-classified exactly when the canonical-duplicate lookup
\* returned without error and the canonical issue is among the suggested ids;
\* otherwise it is Needs review.
C2_AutoIffLookupFindsCanonical ==
    (AssistCase /\ HasSuggestionLine(call.bot_comment.body)) =>
        /\ call.record.outcome = "Assist"
        /\ call.writes[1] = <<"Outcome", "Assist">>
        /\ (call.record.status = "Auto-classified")
              <=> /\ call.lookup = "ok"
                  /\ call.canonical
                        \in Range(parse_suggested_issues(call.bot_comment.body))
        /\ (call.record.status # "Auto-classified") =>
              /\ call.record.status = "Needs review"
              /\ call.writes[2] = <<"Status", "Needs review">>

C2_Witness ==
    /\ AssistCase
    /\ parse_suggested_issues(call.bot_comment.body) = <<10, 20>>
    /\ call.canonical = 20
    /\ call.lookup = "ok"
    /\ board[call.issue][1]["Outcome"] = "Assist"
    /\ board[call.issue][1]["Status"] = "Auto-classified"

\* C3: without a detector comment, a close as "duplicate" writes exactly the
\* record (Missed opportunity, Auto-classified, closed as duplicate) with no
\* bot version, whoever closed; any other reason writes nothing to the board.
C3_NoCommentMissedOrNothing ==
    (ClosedNonStaff /\ "get_bot_comment_with_time" \in call.invoked
        /\ ~call.bot_comment.present) =>
        /\ (call.state_reason = "duplicate") =>
              /\ call.record = [outcome |-> "Missed opportunity",
                                closed_as |-> "duplicate",
                                status |-> "Auto-classified",
                                notes |-> "", bot_comment_time |-> NoTime]
              /\ call.writes = << <<"Outcome", "Missed opportunity">>,
                                  <<"Status", "Auto-classified">>,
                                  <<"Closed as", "duplicate">> >>
              /\ Len(board[call.issue]) = 1
        /\ (call.state_reason # "duplicate") =>
              /\ call.record = NoRecord
              /\ call.writes = <<>>
              /\ call.invoked \cap BoardCalls = {}

C3_Witness ==
    /\ ClosedNonStaff
    /\ "get_bot_comment_with_time" \in call.invoked
    /\ ~call.bot_comment.present
    /\ call.state_reason = "duplicate"
    /\ call.closer # call.author
    /\ board[call.issue][1]["Outcome"] = "Missed opportunity"
    /\ board[call.issue][1]["Bot version"] = ""

\* C4: for an author who is an active staff member classify_closed decides no
\* record, reads no comment and neither reads nor writes the board, and a
\* classify_open iteration adds and writes nothing.
C4_StaffAuthorExcluded ==
    (call.membership = "active") =>
        /\ call.record = NoRecord
        /\ call.writes = <<>>
        /\ "add_project_item" \notin call.invoked
        /\ "get_bot_comment_with_time" \notin call.invoked
        /\ (call.op = "classify_closed") =>
              call.invoked = {"fetch_issue", "is_staff_member"}

C4_Witness ==
    /\ call.op = "classify_closed"
    /\ call.membership = "active"
    /\ call.state_reason = "duplicate"
    /\ call.closer # call.author
    /\ call.raised = ""
    /\ call.on_board
    /\ call.invoked = {"fetch_issue", "is_staff_member"}

\* C5: a non-author closing with a reason other than "duplicate" after a
\* detector comment is recorded as Noise, Needs review, with a note stating
\* the actual reason.
C5_NonAuthorOtherReasonIsNoise ==
    (ClosedWithComment /\ call.closer # call.author
        /\ call.state_reason # "duplicate") =>
        LET actual == IF call.state_reason = "" THEN "unknown" ELSE call.state_reason
            note == "Closed by staff/triager as " \o actual \o ", not duplicate"
        IN  /\ call.record.outcome = "Noise"
            /\ call.record.status = "Needs review"
            /\ call.record.notes = note
            /\ call.writes[1] = <<"Outcome", "Noise">>
            /\ call.writes[2] = <<"Status", "Needs review">>
            /\ <<"Notes", note>> \in Range(call.writes)
            /\ board[call.issue][1]["Status"] = "Needs review"
            /\ board[call.issue][1]["Notes"] = note

C5_Witness ==
    /\ ClosedWithComment
    /\ call.closer # call.author
    /\ call.state_reason = "not_planned"
    /\ board[call.issue][1]["Outcome"] = "Noise"
    /\ board[call.issue][1]["Notes"]
          = "Closed by staff/triager as not_planned, not duplicate"

\* C6: in the Assist case, when the comment body has no parsable suggestion
\* the record is (Assist, Needs review, "Could not parse bot suggestions") and
\* the canonical-duplicate lookup is not invoked.
C6_UnparsedSuggestionsNeedReview ==
    (call.op = "classify_closed"
        /\ call.membership \in Memberships /\ call.membership # "active"
        /\ call.bot_comment.present
        /\ call.closer # call.author
        /\ call.state_reason = "duplicate"
        /\ call.raised \notin {"fetch_issue", "is_staff_member",
                               "get_bot_comment_with_time"}
        /\ ~HasSuggestionLine(call.bot_comment.body)) =>
        /\ call.record = [outcome |-> "Assist", closed_as |-> "duplicate",
                          status |-> "Needs review",
                          notes |-> "Could not parse bot suggestions",
                          bot_comment_time |-> call.bot_comment.created_at]
        /\ "find_canonical_among" \notin call.invoked
        /\ call.lookup = ""
        /\ (call.raised = "") =>
              /\ board[call.issue][1]["Status"] = "Needs review"
              /\ board[call.issue][1]["Notes"] = "Could not parse bot suggestions"

C6_Witness ==
    /\ AssistCase
    /\ call.bot_comment.body = BodyWithoutBullets
    /\ "find_canonical_among" \notin call.invoked
    /\ board[call.issue][1]["Outcome"] = "Assist"
    /\ board[call.issue][1]["Notes"] = "Could not parse bot suggestions"

(* ---------------------------------------------------------------------- *)
(* github-check-new-issue-for-duplicates.py: areas_match                    *)
(* ---------------------------------------------------------------------- *)
\* longest label drawn from LabelAlphabet
MaxLabelLen == 3

LabelAlphabet == {"a", "b", "/"}

Editor == <<"e", "d", "i", "t", "o", "r">>
Edit == <<"e", "d", "i", "t">>
EditorSlash == <<"e", "d", "i", "t", "o", "r", "/">>
EditorDiagnostics ==
    <<"e", "d", "i", "t", "o", "r", "/", "d", "i", "a", "g", "n", "o", "s", "t", "i", "c", "s">>
ParityVim == <<"p", "a", "r", "i", "t", "y", "/", "v", "i", "m">>
Rust == <<"r", "u", "s", "t">>
Languages == <<"l", "a", "n", "g", "u", "a", "g", "e", "s">>
LanguagesRust ==
    <<"l", "a", "n", "g", "u", "a", "g", "e", "s", "/", "r", "u", "s", "t">>
Vim == <<"v", "i", "m">>

NamedLabels ==
    {Editor, Edit, EditorSlash, EditorDiagnostics, ParityVim, Rust, Languages,
     LanguagesRust, Vim}

RECURSIVE StringsUpTo(_, _)
StringsUpTo(alphabet, n) ==
    IF n = 0
    THEN {<<>>}
    ELSE LET shorter == StringsUpTo(alphabet, n - 1)
         IN  shorter \cup {Append(q, c) : q \in shorter, c \in alphabet}

Labels == StringsUpTo(LabelAlphabet, MaxLabelLen) \cup NamedLabels

\* str.startswith
startswith(string, prefix) ==
    /\ Len(prefix) <= Len(string)
    /\ SubSeq(string, 1, Len(prefix)) = prefix

\* str.endswith
endswith(string, suffix) ==
    /\ Len(suffix) <= Len(string)
    /\ SubSeq(string, Len(string) - Len(suffix) + 1, Len(string)) = suffix

\* areas_match that only looks down from the detected area
areas_match_downwards(detected, magnet_area) ==
    \/ detected = magnet_area
    \/ startswith(magnet_area, detected \o <<"/">>)

\* areas_match that also accepts the detected area as the last segment
areas_match_last_segment(detected, magnet_area) ==
    \/ detected = magnet_area
    \/ startswith(magnet_area, detected \o <<"/">>)
    \/ startswith(detected, magnet_area \o <<"/">>)
    \/ endswith(magnet_area, <<"/">> \o detected)
    \/ endswith(detected, <<"/">> \o magnet_area)

areas_match(detected, magnet_area) ==
    \/ detected = magnet_area
    \/ startswith(magnet_area, detected \o <<"/">>)
    \/ startswith(detected, magnet_area \o <<"/">>)

NotRun == [done |-> FALSE]
Returned(value) == [done |-> TRUE, value |-> value]

InitAreas ==
    /\ TrackerInit
    /\ args \in [detected : Labels, magnet_area : Labels]
    /\ ret = NotRun

AreasMatch ==
    /\ ~ret.done
    /\ ret' = Returned(areas_match(args.detected, args.magnet_area))
    /\ UNCHANGED <<board, call, sweep, ncalls, args>>

SpecAreas == InitAreas /\ [][AreasMatch]_vars

\* x is y followed by "/" and a non-empty suffix
IsBelow(x, y) ==
    /\ Len(x) > Len(y) + 1
    /\ SubSeq(x, 1, Len(y) + 1) = y \o <<"/">>

\* x is y followed by "/" and any suffix, empty or not
IsUnder(x, y) ==
    /\ Len(x) >= Len(y) + 1
    /\ \A i \in 1..Len(y) : x[i] = y[i]
    /\ x[Len(y) + 1] = "/"

\* C9 amended: two labels match exactly when they are equal or one is the
\* other followed by "/" and a suffix that may be empty; so "editor" matches
\* "editor/diagnostics" and "editor/", but neither "parity/vim" nor "edit".
C9_MatchIffEqualOrUnder ==
    ret.done =>
        /\ ret.value <=> \/ args.detected = args.magnet_area
                         \/ IsUnder(args.magnet_area, args.detected)
                         \/ IsUnder(args.detected, args.magnet_area)
        /\ (args.detected = Editor /\ args.magnet_area = EditorDiagnostics) => ret.value
        /\ (args.detected = Editor /\ args.magnet_area = ParityVim) => ~ret.value
        /\ ({args.detected, args.magnet_area} = {Edit, Editor}) => ~ret.value
        /\ (args.magnet_area = args.detected \o <<"/">>) => ret.value

C9_Witness ==
    /\ ret.done
    /\ args.detected = Editor
    /\ args.magnet_area = EditorSlash
    /\ ret.value

\* C9 as stated: two labels match exactly when they are equal or one is the
\* other followed by "/" and a non-empty suffix; so "editor" matches
\* "editor/diagnostics" but neither "parity/vim", nor "edit", nor "editor/".
C9_MatchIffEqualOrBelow ==
    ret.done =>
        /\ ret.value <=> \/ args.detected = args.magnet_area
                         \/ IsBelow(args.magnet_area, args.detected)
                         \/ IsBelow(args.detected, args.magnet_area)
        /\ (args.detected = Editor /\ args.magnet_area = EditorDiagnostics) => ret.value
        /\ (args.detected = Editor /\ args.magnet_area = ParityVim) => ~ret.value
        /\ ({args.detected, args.magnet_area} = {Edit, Editor}) => ~ret.value
        /\ (args.magnet_area = args.detected \o <<"/">>) => ~ret.value

\* C10: areas_match(a, b) equals areas_match(b, a) for all labels, and every
\* label matches itself.
C10_SymmetricAndReflexive ==
    ret.done =>
        /\ ret.value = areas_match(args.magnet_area, args.detected)
        /\ (args.detected = args.magnet_area) => ret.value

C10_Witness ==
    /\ ret.done
    /\ args.detected = EditorDiagnostics
    /\ args.magnet_area = Editor
    /\ ret.value
    /\ areas_match(Editor, EditorDiagnostics)

(* ---------------------------------------------------------------------- *)
(* filter_magnets_by_areas                                                 *)
(* ---------------------------------------------------------------------- *)
\* longest catalog drawn
MaxMagnets == 2

MagnetAreaLists ==
    {<<>>, <<LanguagesRust>>, <<Vim>>, <<Rust>>, <<Vim, LanguagesRust>>}

DetectedAreaLists ==
    {<<>>, <<Rust>>, <<Languages>>, <<LanguagesRust>>, <<Vim, Rust>>, <<Editor>>}

\* a magnet as parse_duplicate_magnets returns it
Magnet(number, areas, dupe_count) ==
    [number |-> number, areas |-> areas, dupe_count |-> dupe_count]

\* catalogs of n magnets: distinct numbers, non-increasing dupe_count
RECURSIVE Catalogs(_)
Catalogs(n) ==
    IF n = 0
    THEN {<<>>}
    ELSE {Append(c, Magnet(n, areas, dupes)) :
            c \in Catalogs(n - 1), areas \in MagnetAreaLists,
            dupes \in {MaxMagnets + 2 - n}}

\* filter_magnets_by_areas that also drops the magnets without areas
filter_magnets_by_areas_labelled_only(magnets, detected_areas) ==
    IF detected_areas = <<>>
    THEN magnets
    ELSE LET matches(magnet) ==
                 \E i \in 1..Len(detected_areas) :
                    \E k \in 1..Len(magnet.areas) :
                        areas_match(detected_areas[i], magnet.areas[k])
         IN  SelectSeq(magnets, matches)

filter_magnets_by_areas(magnets, detected_areas) ==
    IF detected_areas = <<>>
    THEN magnets
    ELSE LET detected_set == {detected_areas[i] : i \in 1..Len(detected_areas)}
             matches(magnet) ==
                 IF magnet.areas = <<>>
                 THEN TRUE
                 ELSE \E detected \in detected_set :
                        \E k \in 1..Len(magnet.areas) :
                            areas_match(detected, magnet.areas[k])
         IN  SelectSeq(magnets, matches)

InitFilter ==
    /\ TrackerInit
    /\ \E n \in 0..MaxMagnets :
         args \in [magnets : Catalogs(n), detected_areas : DetectedAreaLists]
    /\ ret = NotRun

FilterMagnetsByAreas ==
    /\ ~ret.done
    /\ ret' = Returned(filter_magnets_by_areas(args.magnets, args.detected_areas))
    /\ UNCHANGED <<board, call, sweep, ncalls, args>>

SpecFilter == InitFilter /\ [][FilterMagnetsByAreas]_vars

Kept(magnet) == magnet \in Range(ret.value)

\* C8 as stated: with detected areas ["rust"] a magnet filed under
\* ["languages/rust"] is kept and a magnet filed under ["vim"] is dropped.
C8_RustKeepsLanguagesRust ==
    (ret.done /\ args.detected_areas = <<Rust>>) =>
        \A i \in 1..Len(args.magnets) :
            /\ (args.magnets[i].areas = <<LanguagesRust>>) => Kept(args.magnets[i])
            /\ (args.magnets[i].areas = <<Vim>>) => ~Kept(args.magnets[i])

\* C8 amended: with detected areas ["rust"] both the magnet filed under
\* ["languages/rust"] and the one filed under ["vim"] are dropped; the magnet
\* filed under ["languages/rust"] is kept, and the one under ["vim"] dropped,
\* when the detected areas are ["languages/rust"] or ["languages"].
C8_FullLabelKeepsLanguagesRust ==
    ret.done =>
        \A i \in 1..Len(args.magnets) :
            /\ (args.detected_areas = <<Rust>>
                  /\ args.magnets[i].areas \in {<<LanguagesRust>>, <<Vim>>})
                  => ~Kept(args.magnets[i])
            /\ (args.detected_areas \in {<<LanguagesRust>>, <<Languages>>}
                  /\ args.magnets[i].areas = <<LanguagesRust>>)
                  => Kept(args.magnets[i])
            /\ (args.detected_areas \in {<<LanguagesRust>>, <<Languages>>}
                  /\ args.magnets[i].areas = <<Vim>>)
                  => ~Kept(args.magnets[i])

C8_Witness ==
    /\ ret.done
    /\ args.detected_areas = <<Rust>>
    /\ Len(args.magnets) = 2
    /\ args.magnets[1].areas = <<LanguagesRust>>
    /\ args.magnets[2].areas = <<Vim>>
    /\ ret.value = <<>>

(* ---------------------------------------------------------------------- *)
(* search_for_similar_issues (the merge of the query results) and          *)
(* analyze_duplicates (the candidate list)                                 *)
(* ---------------------------------------------------------------------- *)
\* magnets[:10]
TopMagnets == 10
\* search_results[:10]
TopSearchResults == 10

\* how far past a slice the modelled lists run
MaxOverflow == 2

\* python q[:n]
Prefix(q, n) == SubSeq(q, 1, IF Len(q) < n THEN Len(q) ELSE n)

\* the issue numbers first, first + 1, ..., first + n - 1
Run(first, n) == [i \in 1..n |-> first + i - 1]

\* What one query returns: a list of issue numbers, most recent first, or a
\* transport error.
QueryFailed == <<0>>
QueryOutcomes ==
    {QueryFailed}
        \cup {Run(first, n) : first \in {1, 2, 10, 12},
                              n \in (0..MaxOverflow) \cup {TopSearchResults + 1}}

\* the merge with a later query overwriting the source of a number already seen
RECURSIVE MergeItems_last_wins(_, _, _, _)
MergeItems_last_wins(seen_issues, items, search_type, issue_number) ==
    IF items = <<>>
    THEN seen_issues
    ELSE MergeItems_last_wins(
            IF Head(items) = issue_number
            THEN seen_issues
            ELSE IF \E i \in 1..Len(seen_issues) : seen_issues[i].number = Head(items)
            THEN [i \in 1..Len(seen_issues) |->
                    IF seen_issues[i].number = Head(items)
                    THEN [number |-> Head(items), source |-> search_type]
                    ELSE seen_issues[i]]
            ELSE Append(seen_issues, [number |-> Head(items), source |-> search_type]),
            Tail(items), search_type, issue_number)

\* seen_issues after the loop over queries[:max_searches]: number and source
\* of each issue, in insertion order
RECURSIVE MergeItems(_, _, _, _)
MergeItems(seen_issues, items, search_type, issue_number) ==
    IF items = <<>>
    THEN seen_issues
    ELSE MergeItems(
            IF Head(items) # issue_number
               /\ \A i \in 1..Len(seen_issues) : seen_issues[i].number # Head(items)
            THEN Append(seen_issues, [number |-> Head(items), source |-> search_type])
            ELSE seen_issues,
            Tail(items), search_type, issue_number)

RECURSIVE MergeQueries(_, _, _)
MergeQueries(seen_issues, queries, issue_number) ==
    IF queries = <<>>
    THEN seen_issues
    ELSE MergeQueries(
            IF Head(queries).outcome = QueryFailed
            THEN seen_issues
            ELSE MergeItems(seen_issues, Head(queries).outcome,
                            Head(queries).search_type, issue_number),
            Tail(queries), issue_number)

\* analyze_duplicates without the magnet_numbers filter on the search results
analyze_duplicates_unfiltered(magnets, search_results) ==
    LET top_magnets == Prefix(magnets, TopMagnets)
        top_results == Prefix(search_results, TopSearchResults)
    IN  [i \in 1..Len(top_magnets) |->
            [number |-> top_magnets[i].number, source |-> "known_duplicate_magnet"]]
        \o [i \in 1..Len(top_results) |->
            [number |-> top_results[i].number, source |-> "search_result"]]

\* the candidates list of analyze_duplicates
analyze_duplicates(magnets, search_results) ==
    LET top_magnets == Prefix(magnets, TopMagnets)
        magnet_numbers == {top_magnets[i].number : i \in 1..Len(top_magnets)}
        top_results == Prefix(search_results, TopSearchResults)
        not_magnet(r) == r.number \notin magnet_numbers
        fresh == SelectSeq(top_results, not_magnet)
    IN  [i \in 1..Len(top_magnets) |->
            [number |-> top_magnets[i].number, source |-> "known_duplicate_magnet"]]
        \o [i \in 1..Len(fresh) |->
            [number |-> fresh[i].number, source |-> "search_result"]]

\* relevant magnets: distinct numbers (the catalog is keyed by number),
\* non-increasing dupe_count
MagnetRuns ==
    {[i \in 1..n |-> Magnet(first + i - 1, <<>>, 20 - i)] :
        first \in {1, 3},
        n \in (0..MaxOverflow) \cup {TopMagnets + k : k \in 1..MaxOverflow}}

InitAnalyze ==
    /\ TrackerInit
    /\ args \in [issue_number : {2, 99},
                 magnets : MagnetRuns,
                 keyword_results : QueryOutcomes,
                 area_results : QueryOutcomes]
    /\ ret = [pc |-> "search", search_results |-> <<>>, candidates |-> <<>>]

SearchForSimilarIssues ==
    /\ ret.pc = "search"
    /\ ret' = [ret EXCEPT
                 !.pc = "analyze",
                 !.search_results =
                     MergeQueries(<<>>,
                         << [search_type |-> "title_keywords",
                             outcome |-> args.keyword_results],
                            [search_type |-> "area_label",
                             outcome |-> args.area_results] >>,
                         args.issue_number)]
    /\ UNCHANGED <<board, call, sweep, ncalls, args>>

AnalyzeDuplicates ==
    /\ ret.pc = "analyze"
    /\ ret' = [ret EXCEPT
                 !.pc = "done",
                 !.candidates = analyze_duplicates(args.magnets, ret.search_results)]
    /\ UNCHANGED <<board, call, sweep, ncalls, args>>

NextAnalyze ==
    \/ SearchForSimilarIssues
    \/ AnalyzeDuplicates

SpecAnalyze == InitAnalyze /\ [][NextAnalyze]_vars

NumbersOf(q) == {q[i].number : i \in 1..Len(q)}

\* C7: the candidate list never holds two candidates with the same issue
\* number, and a number that is both among the enriched magnets and among the
\* search results appears exactly once, as known_duplicate_magnet.
C7_CandidatesUniqueMagnetFirst ==
    (ret.pc = "done") =>
        /\ \A i, j \in 1..Len(ret.candidates) :
              (ret.candidates[i].number = ret.candidates[j].number) => (i = j)
        /\ \A n \in NumbersOf(Prefix(args.magnets, TopMagnets))
                      \cap NumbersOf(ret.search_results) :
              /\ Cardinality({i \in 1..Len(ret.candidates) :
                                ret.candidates[i].number = n}) = 1
              /\ \A i \in 1..Len(ret.candidates) :
                    (ret.candidates[i].number = n)
                        => (ret.candidates[i].source = "known_duplicate_magnet")

C7_Witness ==
    /\ ret.pc = "done"
    /\ 1 \in NumbersOf(Prefix(args.magnets, TopMagnets))
    /\ \E i \in 1..Len(ret.search_results) :
          /\ ret.search_results[i].number = 1
          /\ ret.search_results[i].source = "title_keywords"
    /\ Len(args.magnets) > TopMagnets
    /\ \E i \in 1..Len(ret.candidates) : ret.candidates[i].source = "search_result"
    /\ \E i \in 1..Len(ret.candidates) :
          /\ ret.candidates[i].number = 1
          /\ ret.candidates[i].source = "known_duplicate_magnet"

\* the catalog positions of the magnets the filter has to keep
KeptPositions ==
    {i \in 1..Len(args.magnets) :
        \/ args.magnets[i].areas = <<>>
        \/ \E d \in Range(args.detected_areas), a \in Range(args.magnets[i].areas) :
              areas_match(d, a)}

\* C11: with no detected areas the catalog is returned unchanged; otherwise
\* the result is exactly the magnets without areas or with an area matching a
\* detected area, in catalog order, none added, repeated or altered.
C11_FilterKeepsExactlyMatching ==
    ret.done =>
        /\ (args.detected_areas = <<>>) => (ret.value = args.magnets)
        /\ (args.detected_areas # <<>>) =>
              /\ Len(ret.value) = Cardinality(KeptPositions)
              /\ \A i \in KeptPositions :
                    ret.value[Cardinality({k \in KeptPositions : k <= i})] = args.magnets[i]

C11_Witness ==
    /\ ret.done
    /\ args.detected_areas = <<Languages>>
    /\ Len(args.magnets) = 2
    /\ args.magnets[1].areas = <<Vim>>
    /\ args.magnets[2].areas = <<>>
    /\ ret.value = <<args.magnets[2]>>

(* ---------------------------------------------------------------------- *)
(* parse_duplicate_magnets: the catalog text, line by line                 *)
(* ---------------------------------------------------------------------- *)
\* str.find from position i (1-based): the first position of sub, 0 if none
RECURSIVE Find(_, _, _)
Find(string, sub, i) ==
    IF i + Len(sub) - 1 > Len(string)
    THEN 0
    ELSE IF SubSeq(string, i, i + Len(sub) - 1) = sub
         THEN i
         ELSE Find(string, sub, i + 1)

\* sub in string
contains(string, sub) == Find(string, sub, 1) # 0

\* string.split(sep)[1]: the piece between the first and the second sep;
\* defined when sep occurs in string (IndexError otherwise)
SecondPiece(string, sep) ==
    LET first == Find(string, sep, 1)
        rest == SubSeq(string, first + Len(sep), Len(string))
        second == Find(rest, sep, 1)
    IN  IF second = 0 THEN rest ELSE SubSeq(rest, 1, second - 1)

Whitespace == {" ", "\t"}

\* str.lstrip()
RECURSIVE lstrip(_)
lstrip(string) ==
    IF string # <<>> /\ Head(string) \in Whitespace
    THEN lstrip(Tail(string))
    ELSE string

\* str.rstrip(chars)
RECURSIVE rstrip(_, _)
rstrip(string, chars) ==
    IF string # <<>> /\ string[Len(string)] \in chars
    THEN rstrip(SubSeq(string, 1, Len(string) - 1), chars)
    ELSE string

\* str.strip()
strip(string) == rstrip(lstrip(string), Whitespace)

\* the characters of string up to the first whitespace
RECURSIVE UpToWhitespace(_)
UpToWhitespace(string) ==
    IF string = <<>> \/ Head(string) \in Whitespace
    THEN <<>>
    ELSE <<Head(string)>> \o UpToWhitespace(Tail(string))

\* string.split()[0]: the first whitespace-delimited token; <<>> stands for
\* the IndexError of a string without tokens
FirstToken(string) == UpToWhitespace(lstrip(string))

\* int(token) of a token without whitespace: an optional sign, then digits
\* that single underscores may separate; anything else is a ValueError
IntLiteral(token) ==
    LET signed == token # <<>> /\ token[1] \in {"+", "-"}
        body == IF signed THEN Tail(token) ELSE token
        ok == /\ body # <<>>
              /\ \A i \in 1..Len(body) : body[i] \in Digits \cup {"_"}
              /\ body[1] # "_"
              /\ body[Len(body)] # "_"
              /\ \A i \in 1..(Len(body) - 1) : ~(body[i] = "_" /\ body[i + 1] = "_")
        is_digit(c) == c \in Digits
        magnitude == int(SelectSeq(body, is_digit))
    IN  [ok |-> ok,
         value |-> IF ~ok THEN 0
                   ELSE IF signed /\ token[1] = "-" THEN 0 - magnitude ELSE magnitude]

\* the try block of the loop: dupe_count and number of a bullet line, or the
\* exception the parsing raises
BulletFields(line) ==
    LET count_token ==
            IF contains(line, <<"[">>) THEN FirstToken(SecondPiece(line, <<"[">>)) ELSE <<>>
        dupe_count == IntLiteral(count_token)
        number_token == FirstToken(SecondPiece(line, <<"/", "i", "s", "s", "u", "e", "s", "/">>))
        number == IntLiteral(rstrip(number_token, {")"}))
    IN  IF ~contains(line, <<"[">>) \/ count_token = <<>>
        THEN [error |-> "IndexError", dupe_count |-> 0, number |-> 0]
        ELSE IF ~dupe_count.ok
        THEN [error |-> "ValueError", dupe_count |-> 0, number |-> 0]
        ELSE IF number_token = <<>>
        THEN [error |-> "IndexError", dupe_count |-> 0, number |-> 0]
        ELSE IF ~number.ok
        THEN [error |-> "ValueError", dupe_count |-> 0, number |-> 0]
        ELSE [error |-> "", dupe_count |-> dupe_count.value, number |-> number.value]

HeaderPrefix == <<"#", "#", " ">>
IssuesMarker == <<"/", "i", "s", "s", "u", "e", "s", "/">>
Unlabeled == <<"(", "u", "n", "l", "a", "b", "e", "l", "e", "d", ")">>

\* except (IndexError): continue, a ValueError propagating
CaughtBulletErrors_index_only == {"IndexError"}

\* except (ValueError, IndexError): continue
CaughtBulletErrors == {"ValueError", "IndexError"}

\* the position of the record of number in magnets (a dict in insertion
\* order), 0 if there is none
PositionOf(magnets, number) ==
    IF \E i \in 1..Len(magnets) : magnets[i].number = number
    THEN CHOOSE i \in 1..Len(magnets) : magnets[i].number = number
    ELSE 0

\* a later bullet of a recorded number that adds its section's area even
\* under "(unlabeled)"
RecordBullet_always_appends(magnets, current_area, fields) ==
    LET at == PositionOf(magnets, fields.number)
    IN  IF at # 0
        THEN [magnets EXCEPT ![at].areas = Append(@, current_area)]
        ELSE Append(magnets, Magnet(fields.number,
                                    IF current_area = Unlabeled THEN <<>> ELSE <<current_area>>,
                                    fields.dupe_count))

\* lines 291-302: what a parsed bullet does to the magnets dict
RecordBullet(magnets, current_area, fields) ==
    LET at == PositionOf(magnets, fields.number)
        is_unlabeled == current_area = Unlabeled
    IN  IF at # 0
        THEN IF ~is_unlabeled
             THEN [magnets EXCEPT ![at].areas = Append(@, current_area)]
             ELSE magnets
        ELSE Append(magnets, Magnet(fields.number,
                                    IF is_unlabeled THEN <<>> ELSE <<current_area>>,
                                    fields.dupe_count))

\* the loop over body.split("\n"); current_area <<>> stands for both None and
\* "", which the loop tells apart nowhere
RECURSIVE ParseLines(_, _, _)
ParseLines(lines, current_area, magnets) ==
    IF lines = <<>>
    THEN [raised |-> "", magnets |-> magnets]
    ELSE LET line == Head(lines)
         IN  IF startswith(line, HeaderPrefix)
             THEN ParseLines(Tail(lines), strip(SubSeq(line, 4, Len(line))), magnets)
             ELSE IF current_area = <<>> \/ ~startswith(line, <<"-">>)
                     \/ ~contains(line, IssuesMarker)
             THEN ParseLines(Tail(lines), current_area, magnets)
             ELSE LET fields == BulletFields(line)
                  IN  IF fields.error \in CaughtBulletErrors
                      THEN ParseLines(Tail(lines), current_area, magnets)
                      ELSE IF fields.error # ""
                      THEN [raised |-> fields.error, magnets |-> <<>>]
                      ELSE ParseLines(Tail(lines), current_area,
                                      RecordBullet(magnets, current_area, fields))

\* sorted(magnets, key=dupe_count, reverse=True): stable, equal counts keep
\* their order
RECURSIVE SortedByDupeCount(_)
SortedByDupeCount(magnets) ==
    IF magnets = <<>>
    THEN <<>>
    ELSE LET sorted == SortedByDupeCount(SubSeq(magnets, 1, Len(magnets) - 1))
             last == magnets[Len(magnets)]
             before == Cardinality({i \in 1..Len(sorted) :
                                        sorted[i].dupe_count >= last.dupe_count})
         IN  SubSeq(sorted, 1, before) \o <<last>> \o SubSeq(sorted, before + 1, Len(sorted))

\* the magnets in the order the dict holds them
parse_duplicate_magnets_unsorted(body) == ParseLines(body, <<>>, <<>>)

\* body is the text of the tracking issue as body.split("\n") cuts it
parse_duplicate_magnets(body) ==
    LET parsed == ParseLines(body, <<>>, <<>>)
    IN  [raised |-> parsed.raised, magnets |-> SortedByDupeCount(parsed.magnets)]

(* ---------------------------------------------------------------------- *)
(* Catalog texts                                                           *)
(* ---------------------------------------------------------------------- *)
\* most lines of a text made of section headers and well-formed bullets
MaxLines == 4

\* lines of the tracking issue body
SectionA == <<"#", "#", " ", "a">>
SectionB == <<"#", "#", " ", "b">>
SectionUnlabeled ==
    <<"#", "#", " ", "(", "u", "n", "l",
       "a", "b", "e", "l", "e", "d", ")">>
Bullet1 ==
    <<"-", " ", "[", "3", " ", "d", "u", "p", "e", "s", "]",
       " ", "u", "/", "i", "s", "s", "u", "e", "s", "/", "1">>
Bullet1Again ==
    <<"-", " ", "[", "2", " ", "d", "u", "p", "e", "s", "]",
       " ", "u", "/", "i", "s", "s", "u", "e", "s", "/", "1">>
Bullet2 ==
    <<"-", " ", "[", "4", " ", "d", "u", "p", "e", "s", "]", " ",
       "(", "u", "/", "i", "s", "s", "u", "e", "s", "/", "2", ")">>
Prose == <<"s", "e", "e", ":">>
SectionBlank == <<"#", "#", " ">>
BulletNoBracket ==
    <<"-", " ", "3", " ", "d", "u", "p", "e", "s", " ",
       "u", "/", "i", "s", "s", "u", "e", "s", "/", "1">>
BulletBadCount ==
    <<"-", " ", "[", "x", " ", "d", "u", "p", "e", "s", "]",
       " ", "u", "/", "i", "s", "s", "u", "e", "s", "/", "1">>
BulletNoNumber ==
    <<"-", " ", "[", "3", " ", "d", "u", "p", "e", "s",
       "]", " ", "u", "/", "i", "s", "s", "u", "e", "s", "/">>
BulletBadNumber ==
    <<"-", " ", "[", "3", " ", "d", "u", "p", "e", "s", "]",
       " ", "u", "/", "i", "s", "s", "u", "e", "s", "/", "x">>
BulletNoMarker ==
    <<"-", " ", "[", "3", " ", "d", "u", "p", "e", "s",
       "]", " ", "u", "/", "i", "s", "s", "u", "e", "/", "1">>
StarBullet ==
    <<"*", " ", "[", "3", " ", "d", "u", "p", "e", "s", "]",
       " ", "u", "/", "i", "s", "s", "u", "e", "s", "/", "1">>
EmptyLine == <<>>

ListingLines == {SectionA, SectionB, SectionUnlabeled, Bullet1, Bullet1Again, Bullet2}

\* lines the parser has to skip wherever they stand
JunkLines ==
    {Prose, EmptyLine, BulletNoBracket, BulletBadCount, BulletNoNumber, BulletBadNumber,
     BulletNoMarker, StarBullet}

MixedLines == JunkLines \cup {SectionA, SectionBlank, Bullet1, Bullet2}

\* the texts of 1..n lines drawn from pool
TextsOf(pool, n) == UNION {[1..k -> pool] : k \in 1..n}

CatalogTexts == TextsOf(ListingLines, MaxLines) \cup TextsOf(MixedLines, MaxLines - 1)

InitParse ==
    /\ TrackerInit
    /\ args \in [body : CatalogTexts]
    /\ ret = NotRun

ParseDuplicateMagnets ==
    /\ ~ret.done
    /\ ret' = Returned(parse_duplicate_magnets(args.body))
    /\ UNCHANGED <<board, call, sweep, ncalls, args>>

SpecParse == InitParse /\ [][ParseDuplicateMagnets]_vars


(* ---------------------------------------------------------------------- *)
(* Properties of parse_duplicate_magnets                                   *)
(* ---------------------------------------------------------------------- *)
\* what the lines of the texts say: the section a header opens, the issue
\* and the count a well-formed bullet lists
SectionNames ==
    {<<SectionA, <<"a">> >>, <<SectionB, <<"b">> >>, <<SectionUnlabeled, Unlabeled>>,
     <<SectionBlank, <<>> >>}
Headers == {h[1] : h \in SectionNames}
SectionName(line) == (CHOOSE h \in SectionNames : h[1] = line)[2]

BulletListings ==
    {<<Bullet1, 1, 3>>, <<Bullet1Again, 1, 2>>, <<Bullet2, 2, 4>>}
Bullets == {b[1] : b \in BulletListings}
ListedNumber(line) == (CHOOSE b \in BulletListings : b[1] = line)[2]
ListedCount(line) == (CHOOSE b \in BulletListings : b[1] = line)[3]

\* the section line i of text stands in: the name of the last header above
\* it, <<>> above the first header and under a header without a name
SectionAt(text, i) ==
    LET above == {k \in 1..(i - 1) : text[k] \in Headers}
    IN  IF above = {}
        THEN <<>>
        ELSE SectionName(text[CHOOSE k \in above : \A m \in above : m <= k])

\* the lines of text that list issue number under a section
ListingsOf(text, number) ==
    {i \in 1..Len(text) :
        /\ text[i] \in Bullets
        /\ ListedNumber(text[i]) = number
        /\ SectionAt(text, i) # <<>>}

ListedNumbers(text) ==
    {n \in {b[2] : b \in BulletListings} : ListingsOf(text, n) # {}}

FirstListing(text, number) ==
    CHOOSE i \in ListingsOf(text, number) : \A k \in ListingsOf(text, number) : i <= k

\* the named sections of the listings of number from line i on, one per
\* listing, in text order
RECURSIVE NamedSectionsFrom(_, _, _)
NamedSectionsFrom(text, number, i) ==
    IF i > Len(text)
    THEN <<>>
    ELSE (IF i \in ListingsOf(text, number) /\ SectionAt(text, i) # Unlabeled
          THEN <<SectionAt(text, i)>>
          ELSE <<>>) \o NamedSectionsFrom(text, number, i + 1)

Parsed == ret.done /\ ret.value.raised = ""

\* C12: a magnet first listed under "(unlabeled)" ends with an empty area
\* list, whatever named sections list it later.
C12_UnlabeledFirstStaysEmpty ==
    Parsed =>
        \A i \in 1..Len(ret.value.magnets) :
            LET magnet == ret.value.magnets[i]
            IN  (/\ magnet.number \in ListedNumbers(args.body)
                 /\ SectionAt(args.body, FirstListing(args.body, magnet.number)) = Unlabeled)
                    => (magnet.areas = <<>>)

\* C13: a magnet first listed under a named section ends with the named
\* sections of its listings, in text order; a listing under "(unlabeled)"
\* neither adds an area nor clears the list.
C13_AreasAreNamedSectionsInOrder ==
    Parsed =>
        \A i \in 1..Len(ret.value.magnets) :
            LET magnet == ret.value.magnets[i]
            IN  (/\ magnet.number \in ListedNumbers(args.body)
                 /\ SectionAt(args.body, FirstListing(args.body, magnet.number)) # Unlabeled)
                    => (magnet.areas = NamedSectionsFrom(args.body, magnet.number, 1))

C13_Witness ==
    /\ Parsed
    /\ args.body = <<SectionA, Bullet1, SectionUnlabeled, Bullet1Again>>
    /\ Len(ret.value.magnets) = 1
    /\ ret.value.magnets[1].areas = << <<"a">> >>

\* C14: the parser returns one record per issue number listed under a
\* section, however often it is listed; the record carries the count of the
\* number's first listing, and the list is in non-increasing count order.
C14_OneRecordPerNumberSorted ==
    Parsed =>
        LET magnets == ret.value.magnets
        IN  /\ {magnets[i].number : i \in 1..Len(magnets)} = ListedNumbers(args.body)
            /\ \A i, j \in 1..Len(magnets) :
                  (magnets[i].number = magnets[j].number) => (i = j)
            /\ \A i \in 1..Len(magnets) :
                  magnets[i].dupe_count
                      = ListedCount(args.body[FirstListing(args.body, magnets[i].number)])
            /\ \A i \in 1..(Len(magnets) - 1) :
                  magnets[i].dupe_count >= magnets[i + 1].dupe_count

C14_Witness ==
    /\ Parsed
    /\ args.body = <<SectionA, Bullet1Again, Bullet1, Bullet2>>
    /\ Len(ret.value.magnets) = 2
    /\ ret.value.magnets[1] = Magnet(2, << <<"a">> >>, 4)
    /\ ret.value.magnets[2].number = 1
    /\ ret.value.magnets[2].dupe_count = 2

\* text without the lines the parser has to skip: the junk lines, and every
\* line above the first header
RECURSIVE WithoutSkippedFrom(_, _)
WithoutSkippedFrom(text, i) ==
    IF i > Len(text)
    THEN <<>>
    ELSE (IF \/ text[i] \in JunkLines
             \/ \A k \in 1..i : text[k] \notin Headers
          THEN <<>>
          ELSE <<text[i]>>) \o WithoutSkippedFrom(text, i + 1)

\* C15: the parser fails on no text, and returns the magnets it returns for
\* the text without the lines above the first header, the lines that are no
\* "-" bullet with "/issues/", and the bullets whose count or number is
\* missing or not a number.
C15_SkippedLinesChangeNothing ==
    ret.done =>
        /\ ret.value.raised = ""
        /\ ret.value = parse_duplicate_magnets(WithoutSkippedFrom(args.body, 1))

C15_Witness ==
    /\ Parsed
    /\ args.body = <<SectionA, BulletBadCount, Bullet1>>
    /\ WithoutSkippedFrom(args.body, 1) = <<SectionA, Bullet1>>
    /\ ret.value.magnets = << Magnet(1, << <<"a">> >>, 3) >>

(* ---------------------------------------------------------------------- *)
(* The catalog writer: extract_duplicate_info and build_markdown_body      *)
(* ---------------------------------------------------------------------- *)
\* most issues with duplicates in one run of the writer
MaxIssues == 2

\* str(n) of a natural number
RECURSIVE str(_)
str(n) ==
    IF n < 10
    THEN <<CHOOSE c \in Digits : DigitValue(c) = n>>
    ELSE str(n \div 10) \o <<CHOOSE c \in Digits : DigitValue(c) = n % 10>>

\* f"{n:2d}": right-aligned in a field of two characters
format_2d(n) == IF Len(str(n)) < 2 THEN <<" ">> \o str(n) ELSE str(n)

\* string.replace(old, ""), old not empty
RECURSIVE RemoveAll(_, _)
RemoveAll(string, old) ==
    IF string = <<>>
    THEN <<>>
    ELSE IF startswith(string, old)
         THEN RemoveAll(SubSeq(string, Len(old) + 1, Len(string)), old)
         ELSE <<Head(string)>> \o RemoveAll(Tail(string), old)

AreaPrefix == <<"a", "r", "e", "a", ":">>

\* seen_duplicates: the numbers of the duplicates in state CLOSED; an event
\* without a duplicate (state "missing") raises the TypeError the loop catches
ClosedDuplicates(events) ==
    {events[i].number : i \in {k \in 1..Len(events) : events[k].state = "CLOSED"}}

\* None is the empty sequence here, an info the sequence holding it
extract_duplicate_info(issue) ==
    LET seen_duplicates == ClosedDuplicates(issue.timelineItems)
        is_area(l) == startswith(l, AreaPrefix)
        area_labels == SelectSeq(issue.labels, is_area)
        areas == [i \in 1..Len(area_labels) |-> RemoveAll(area_labels[i], AreaPrefix)]
    IN  IF Cardinality(seen_duplicates) < 2
        THEN <<>>
        ELSE << [number |-> issue.number,
                 url |-> issue.url,
                 areas |-> IF areas # <<>> THEN areas ELSE <<Unlabeled>>,
                 duplicate_count |-> Cardinality(seen_duplicates)] >>

\* the loop of fetch_canonical_issues_with_duplicates over the issue nodes
RECURSIVE ExtractAll(_)
ExtractAll(issues) ==
    IF issues = <<>>
    THEN <<>>
    ELSE extract_duplicate_info(Head(issues)) \o ExtractAll(Tail(issues))

\* sorted(items, key=..., reverse=True) of [key, item] pairs: stable
RECURSIVE SortedByKeyReverse(_)
SortedByKeyReverse(pairs) ==
    IF pairs = <<>>
    THEN <<>>
    ELSE LET sorted == SortedByKeyReverse(SubSeq(pairs, 1, Len(pairs) - 1))
             last == pairs[Len(pairs)]
             before == Cardinality({i \in 1..Len(sorted) : sorted[i].key >= last.key})
         IN  SubSeq(sorted, 1, before) \o <<last>> \o SubSeq(sorted, before + 1, Len(sorted))

\* the (area, info) pairs in the order the two loops of lines 156-159 visit
RECURSIVE AreaPairs(_)
AreaPairs(duplicate_magnets) ==
    IF duplicate_magnets = <<>>
    THEN <<>>
    ELSE [i \in 1..Len(Head(duplicate_magnets).areas) |->
            [area |-> Head(duplicate_magnets).areas[i], info |-> Head(duplicate_magnets)]]
         \o AreaPairs(Tail(duplicate_magnets))

\* the keys of by_area in insertion order
RECURSIVE AreasInOrder(_)
AreasInOrder(pairs) ==
    IF pairs = <<>>
    THEN <<>>
    ELSE LET earlier == AreasInOrder(SubSeq(pairs, 1, Len(pairs) - 1))
             area == pairs[Len(pairs)].area
         IN  IF \E i \in 1..Len(earlier) : earlier[i] = area
             THEN earlier
             ELSE Append(earlier, area)

RECURSIVE SumCounts(_)
SumCounts(infos) ==
    IF infos = <<>> THEN 0 ELSE Head(infos).duplicate_count + SumCounts(Tail(infos))

\* the first line of the body (its first words stand for the sentence)
Preamble ==
    <<"T", "h", "e", "s", "e", " ", "a", "r", "e", " ", "t", "h", "e", " ", "i", "s", "s", "u", "e", "s">>

BulletStart == <<"-", " ", " ", " ", "[">>
DupesLabel == <<" ", "d", "u", "p", "e", "s", "]", " ">>

\* lines 168-176: the header and the bullets of one area
SectionLines(area, infos) ==
    LET keyed == [i \in 1..Len(infos) |-> [key |-> infos[i].duplicate_count, item |-> infos[i]]]
        issues == SortedByKeyReverse(keyed)
    IN  << <<>>, HeaderPrefix \o area, <<>> >>
        \o [i \in 1..Len(issues) |->
              BulletStart \o format_2d(issues[i].item.duplicate_count) \o DupesLabel
                  \o issues[i].item.url]

RECURSIVE ConcatSections(_)
ConcatSections(sections) ==
    IF sections = <<>> THEN <<>> ELSE Head(sections) \o ConcatSections(Tail(sections))

\* the lines that "\n".join(lines) joins
build_markdown_body(duplicate_magnets) ==
    LET pairs == AreaPairs(duplicate_magnets)
        areas == AreasInOrder(pairs)
        by_area(area) ==
            LET of_area(pair) == pair.area = area
                chosen == SelectSeq(pairs, of_area)
            IN  [i \in 1..Len(chosen) |-> chosen[i].info]
        area_totals == [i \in 1..Len(areas) |->
                          [key |-> SumCounts(by_area(areas[i])), item |-> areas[i]]]
        most_common == SortedByKeyReverse(area_totals)
    IN  <<Preamble>>
        \o ConcatSections([i \in 1..Len(most_common) |->
                              SectionLines(most_common[i].item, by_area(most_common[i].item))])

\* label names of the repository
LabelAreaA == <<"a", "r", "e", "a", ":", "a">>
LabelAreaB == <<"a", "r", "e", "a", ":", "b">>
LabelBug == <<"b", "u", "g">>
LabelAreaOnly == <<"a", "r", "e", "a", ":">>
LabelLists ==
    {<<>>, <<LabelAreaA>>, <<LabelAreaA, LabelAreaB>>, <<LabelBug, LabelAreaB>>,
     <<LabelAreaOnly>>}

\* MARKED_AS_DUPLICATE timeline events
DuplicateEvent(state, number) == [state |-> state, number |-> number]
Timelines ==
    { <<DuplicateEvent("CLOSED", 101)>>,
      <<DuplicateEvent("CLOSED", 101), DuplicateEvent("CLOSED", 102)>>,
      <<DuplicateEvent("CLOSED", 101), DuplicateEvent("OPEN", 103),
        DuplicateEvent("CLOSED", 101), DuplicateEvent("missing", 0),
        DuplicateEvent("CLOSED", 102), DuplicateEvent("CLOSED", 104)>>,
      [i \in 1..12 |-> DuplicateEvent("CLOSED", 100 + i)] }

UrlPrefix == <<"h", "t", "t", "p", "s", ":", "/", "/", "g", "/", "z", "/", "i", "s", "s", "u", "e", "s", "/">>

\* the open issue with the given number as the GraphQL query returns it
IssueNode(number, labels, events) ==
    [number |-> number, url |-> UrlPrefix \o str(number), labels |-> labels,
     timelineItems |-> events]

\* the number of the i-th issue of a page
NodeNumber(i) == 7 * i

RECURSIVE IssuePages(_)
IssuePages(n) ==
    IF n = 0
    THEN {<<>>}
    ELSE IssuePages(n - 1)
         \cup {Append(page, IssueNode(NodeNumber(n), labels, events)) :
                 page \in {p \in IssuePages(n - 1) : Len(p) = n - 1},
                 labels \in LabelLists, events \in Timelines}

InitRoundTrip ==
    /\ TrackerInit
    /\ args \in [issues : IssuePages(MaxIssues)]
    /\ ret = [pc |-> "extract", duplicate_magnets |-> <<>>, body |-> <<>>,
              parsed |-> [raised |-> "", magnets |-> <<>>]]

FetchCanonicalIssuesWithDuplicates ==
    /\ ret.pc = "extract"
    /\ ret' = [ret EXCEPT !.pc = "build", !.duplicate_magnets = ExtractAll(args.issues)]
    /\ UNCHANGED <<board, call, sweep, ncalls, args>>

\* the body is built and written only for a non-empty list
BuildMarkdownBody ==
    /\ ret.pc = "build"
    /\ ret' = IF ret.duplicate_magnets = <<>>
              THEN [ret EXCEPT !.pc = "unwritten"]
              ELSE [ret EXCEPT !.pc = "written",
                               !.body = build_markdown_body(ret.duplicate_magnets)]
    /\ UNCHANGED <<board, call, sweep, ncalls, args>>

ParseWrittenBody ==
    /\ ret.pc = "written"
    /\ ret' = [ret EXCEPT !.pc = "parsed", !.parsed = parse_duplicate_magnets(ret.body)]
    /\ UNCHANGED <<board, call, sweep, ncalls, args>>

NextRoundTrip ==
    \/ FetchCanonicalIssuesWithDuplicates
    \/ BuildMarkdownBody
    \/ ParseWrittenBody

SpecRoundTrip == InitRoundTrip /\ [][NextRoundTrip]_vars

\* C16: parsing the body the writer built gives back the issue numbers of
\* the written magnet infos, each with its duplicate count, with no areas for
\* an info written under "(unlabeled)" and the info's set of areas otherwise.
C16_WrittenCatalogParsesBack ==
    (ret.pc = "parsed") =>
        LET infos == ret.duplicate_magnets
            magnets == ret.parsed.magnets
        IN  /\ ret.parsed.raised = ""
            /\ {magnets[i].number : i \in 1..Len(magnets)}
                  = {infos[i].number : i \in 1..Len(infos)}
            /\ \A i \in 1..Len(magnets) : \A k \in 1..Len(infos) :
                  (magnets[i].number = infos[k].number) =>
                      /\ magnets[i].dupe_count = infos[k].duplicate_count
                      /\ Range(magnets[i].areas)
                            = IF infos[k].areas = <<Unlabeled>>
                              THEN {}
                              ELSE Range(infos[k].areas)

(* ---------------------------------------------------------------------- *)
(* Properties of the bot version and of the board upsert                   *)
(* ---------------------------------------------------------------------- *)
\* most deployments in a timeline
MaxVersions == 3

DeploymentInstants == {2 * i - 1 : i \in 1..MaxVersions}
CommentInstants == 0..(2 * MaxVersions)

\* the timelines sorted strictly newest first; the oldest entry is "v1"
SortedTimelines ==
    UNION {{[i \in 1..k |-> [version |-> "v" \o ToString(k + 1 - i), deployed |-> f[i]]] :
              f \in {g \in [1..k -> DeploymentInstants] :
                        \A i \in 1..(k - 1) : g[i] > g[i + 1]}} :
           k \in 1..MaxVersions}

\* the last run wrote a record for an issue whose detector comment has a timestamp
WroteWithTimestamp ==
    /\ call.raised = ""
    /\ call.writes # <<>>
    /\ call.bot_comment.present
    /\ call.bot_comment.created_at # NoTime

\* C17: on a timeline sorted strictly newest first the version is that of the
\* first entry deployed at or before the timestamp, and that of the oldest
\* entry when the timestamp precedes every deployment; for [v2 at 2, v1 at 1]
\* a comment before 1 or from 1 to before 2 is v1, one at or after 2 is v2;
\* every record written for a comment with a timestamp sets Bot version so.
C17_BotVersionResolvedAndWritten ==
    /\ \A timeline \in SortedTimelines, t \in CommentInstants :
          LET version == FirstDeployedAtOrBefore(timeline, t, 1)
              reached == {i \in 1..Len(timeline) : timeline[i].deployed <= t}
          IN  /\ \E i \in 1..Len(timeline) : version = timeline[i].version
              /\ (reached = {}) => (version = timeline[Len(timeline)].version)
              /\ (reached # {}) =>
                    \E i \in reached :
                        /\ version = timeline[i].version
                        /\ \A k \in reached : timeline[k].deployed <= timeline[i].deployed
    /\ WroteWithTimestamp =>
          LET t == call.bot_comment.created_at
              version == IF t >= 2 THEN "v2" ELSE "v1"
          IN  /\ bot_version_for_time(t) = version
              /\ call.writes[Len(call.writes)] = <<"Bot version", version>>
              /\ board[call.issue][1]["Bot version"] = version

C17_Witness ==
    /\ WroteWithTimestamp
    /\ call.bot_comment.created_at = 1
    /\ call.on_board
    /\ board[call.issue][1]["Bot version"] = "v1"
    /\ call.writes[Len(call.writes)] = <<"Bot version", "v1">>

\* C18: after any sequence of classify_closed and classify_open runs the
\* board holds at most one item per issue; an item is added only when
\* find_project_item found none, otherwise the fields of the existing item
\* are set.
C18_AtMostOneItemPerIssue ==
    /\ \A issue \in IssueNumbers : Len(board[issue]) <= 1
    /\ ("add_project_item" \in call.invoked) => ~call.on_board
    /\ (call.on_board /\ call.writes # <<>>) =>
          /\ "add_project_item" \notin call.invoked
          /\ Len(board[call.issue]) = 1
          /\ board[call.issue][1]["Outcome"] = call.record.outcome
          /\ board[call.issue][1]["Status"] = call.record.status

C18_Witness ==
    /\ call.op = "classify_closed"
    /\ call.on_board
    /\ call.writes # <<>>
    /\ call.raised = ""
    /\ Len(board[call.issue]) = 1
    /\ board[call.issue][1]["Outcome"] = "Success"
    /\ \E other \in IssueNumbers : other # call.issue /\ board[other] = <<>>

(* ---------------------------------------------------------------------- *)
(* search_for_similar_issues: the queries and the loop that runs them      *)
(* ---------------------------------------------------------------------- *)
UpperCase ==
    <<"A", "B", "C", "D", "E", "F", "G", "H", "I", "J", "K", "L", "M", "N",
      "O", "P", "Q", "R", "S", "T", "U", "V", "W", "X", "Y", "Z">>
LowerCase ==
    <<"a", "b", "c", "d", "e", "f", "g", "h", "i", "j", "k", "l", "m", "n",
      "o", "p", "q", "r", "s", "t", "u", "v", "w", "x", "y", "z">>

\* str.lower(), character by character
lower(string) ==
    [i \in 1..Len(string) |->
        IF \E k \in 1..Len(UpperCase) : UpperCase[k] = string[i]
        THEN LowerCase[CHOOSE k \in 1..Len(UpperCase) : UpperCase[k] = string[i]]
        ELSE string[i]]

\* str.split(): the whitespace-delimited tokens
RECURSIVE split(_)
split(string) ==
    IF lstrip(string) = <<>>
    THEN <<>>
    ELSE LET token == FirstToken(string)
             start == Len(string) - Len(lstrip(string)) + 1
         IN  <<token>> \o split(SubSeq(string, start + Len(token), Len(string)))

\* separator.join(words)
RECURSIVE join(_, _)
join(separator, words) ==
    IF words = <<>>
    THEN <<>>
    ELSE IF Len(words) = 1
         THEN words[1]
         ELSE words[1] \o separator \o join(separator, Tail(words))

STOPWORDS ==
    {<<"a", "f", "t", "e", "r">>, <<"a", "l", "l">>, <<"a", "l", "s", "o">>,
     <<"a", "n", "d">>, <<"a", "n", "y">>, <<"b", "u", "t">>, <<"c", "a", "n", "'", "t">>,
     <<"d", "o", "e", "s">>, <<"d", "o", "e", "s", "n", "'", "t">>,
     <<"d", "o", "n", "'", "t">>, <<"f", "o", "r">>, <<"f", "r", "o", "m">>,
     <<"h", "a", "v", "e">>, <<"j", "u", "s", "t">>, <<"n", "o", "t">>,
     <<"o", "n", "l", "y">>, <<"s", "o", "m", "e">>, <<"t", "h", "a", "t">>,
     <<"t", "h", "e">>, <<"t", "h", "i", "s">>, <<"w", "h", "e", "n">>,
     <<"w", "h", "i", "l", "e">>, <<"w", "i", "t", "h">>, <<"w", "o", "n", "'", "t">>,
     <<"w", "o", "r", "k">>, <<"w", "o", "r", "k", "i", "n", "g">>, <<"z", "e", "d">>}

\* line 360
title_keywords(title) ==
    LET kept(word) == lower(word) \notin STOPWORDS /\ Len(word) > 2
    IN  SelectSeq(split(title), kept)

\* the alternatives of the error pattern, in the order the regex tries them
ErrorWords ==
    << <<"e", "r", "r", "o", "r">>,
       <<"p", "a", "n", "i", "c", "k", "e", "d">>,
       <<"p", "a", "n", "i", "c">>,
       <<"f", "a", "i", "l", "e", "d">> >>

\* {5,90}: the bounds of the captured snippet
SnippetMin == 5
SnippetMax == 90

\* \w and \s of the regex
WordChars == {UpperCase[i] : i \in 1..Len(UpperCase)} \cup {LowerCase[i] : i \in 1..Len(LowerCase)}
                \cup Digits \cup {"_"}
RegexSpace == Whitespace \cup {"\n", "\r"}

\* \b at the gap before position p
WordBoundary(string, p) ==
    LET before == p > 1 /\ string[p - 1] \in WordChars
        after == p <= Len(string) /\ string[p] \in WordChars
    IN  before # after

\* the length of the run of characters of set from position p on
RECURSIVE RunLength(_, _, _)
RunLength(string, p, set) ==
    IF p <= Len(string) /\ string[p] \in set
    THEN 1 + RunLength(string, p + 1, set)
    ELSE 0

\* the characters [^\n] matches from position p on
NoNewlineRun(string, p) ==
    IF p > Len(string) THEN 0
    ELSE IF Find(string, <<"\n">>, p) = 0 THEN Len(string) - p + 1
    ELSE Find(string, <<"\n">>, p) - p

\* \s*([^\n]{5,90}) from position p: the greedy \s* gives characters back
\* until the group finds its five; the start of the group, 0 for no match
GroupStart(string, p) ==
    LET spaces == RunLength(string, p, RegexSpace)
        starts == {p + j : j \in {k \in 0..spaces :
                                    NoNewlineRun(string, p + k) >= SnippetMin}}
    IN  IF starts = {} THEN 0 ELSE CHOOSE s \in starts : \A t \in starts : t <= s

\* the pattern tried at position p: the group start of the first alternative
\* that matches there, 0 if none does
RECURSIVE MatchAt(_, _, _)
MatchAt(string, p, alternative) ==
    IF alternative > Len(ErrorWords)
    THEN 0
    ELSE LET word == ErrorWords[alternative]
             end == p + Len(word)
         IN  IF /\ end - 1 <= Len(string)
                /\ lower(SubSeq(string, p, end - 1)) = word
                /\ WordBoundary(string, p)
                /\ WordBoundary(string, end)
                /\ GroupStart(string, end) # 0
             THEN GroupStart(string, end)
             ELSE MatchAt(string, p, alternative + 1)

\* re.search(error_pattern, body): group 1 of the leftmost match, or no match
RECURSIVE SearchFrom(_, _)
SearchFrom(body, p) ==
    IF p > Len(body)
    THEN [matched |-> FALSE, group |-> <<>>]
    ELSE LET start == MatchAt(body, p, 1)
             length == IF NoNewlineRun(body, start) > SnippetMax
                       THEN SnippetMax ELSE NoNewlineRun(body, start)
         IN  IF start # 0
             THEN [matched |-> TRUE, group |-> SubSeq(body, start, start + length - 1)]
             ELSE SearchFrom(body, p + 1)

\* lines 370-373: match and match.group(1).strip()
error_snippet(body) ==
    LET match == SearchFrom(body, 1)
    IN  [matched |-> match.matched, snippet |-> strip(match.group)]

\* max_searches=6
DefaultMaxSearches == 6

Query(search_type, term) == [search_type |-> search_type, term |-> term]

\* lines 358-374: the queries in priority order; term is what the query adds
\* to base_query
BuildQueryList(title, detected_areas, body) ==
    LET keywords == title_keywords(title)
        match == error_snippet(body)
    IN  (IF keywords # <<>>
         THEN <<Query("title_keywords", join(<<" ">>, keywords))>> ELSE <<>>)
        \o [i \in 1..Len(detected_areas) |-> Query("area_label", detected_areas[i])]
        \o (IF match.matched THEN <<Query("error_pattern", match.snippet)>> ELSE <<>>)

\* the loop running every query it was given
QueriesToRun_all(queries, max_searches) == queries

\* queries[:max_searches]
QueriesToRun(queries, max_searches) == Prefix(queries, max_searches)

\* longest list of detected areas
MaxDetected == 6

\* issue titles and bodies
TitleEmpty == <<>>
TitleAllFiltered == <<"Z", "e", "d", " ", "i", "s", " ", "n", "o", "t", " ", "o", "k">>
TitleCrashOnSave == <<"C", "r", "a", "s", "h", " ", "o", "n", " ", "S", "a", "v", "e">>
Titles == {TitleEmpty, TitleAllFiltered, TitleCrashOnSave}

ReportNoError == <<>>
ReportFailed == <<"i", "t", " ", "F", "a", "i", "l", "e", "d", ":", " ", "d", "i", "s", "k", " ", "f", "u", "l", "l">>
ReportErrorsOnly ==
    <<"e", "r", "r", "o", "r", "s", "\n", "p", "a", "n", "i", "c", "\n", "\n", "a", "b">>
ReportPanicShort == <<"p", "a", "n", "i", "c", " ", " ", "a", "b", "c">>
Reports == {ReportNoError, ReportFailed, ReportErrorsOnly, ReportPanicShort}

\* what detect_areas returned
ManyAreas == [i \in 1..MaxDetected |-> <<"t", "/">> \o str(i)]
DetectedLists == {<<>>, <<Editor>>, <<Vim, LanguagesRust>>, ManyAreas}

\* what one search returns: issue numbers, or the transport error
SearchAnswers == {QueryFailed, <<1, 2>>, <<2, 3>>}

InitSearch ==
    /\ TrackerInit
    /\ args \in [issue_number : {2, 99}, title : Titles, body : Reports,
                 detected_areas : DetectedLists]
    /\ ret = [pc |-> "build", queries |-> <<>>, issued |-> <<>>, seen_issues |-> <<>>,
              similar_issues |-> <<>>]

BuildQueries ==
    /\ ret.pc = "build"
    /\ ret' = [ret EXCEPT !.pc = "run",
                          !.queries = BuildQueryList(args.title, args.detected_areas,
                                                     args.body)]
    /\ UNCHANGED <<board, call, sweep, ncalls, args>>

\* one iteration of the loop of lines 376-393
RunQuery ==
    /\ ret.pc = "run"
    /\ Len(ret.issued) < Len(QueriesToRun(ret.queries, DefaultMaxSearches))
    /\ \E answer \in SearchAnswers :
          LET query == ret.queries[Len(ret.issued) + 1]
          IN  ret' = [ret EXCEPT
                        !.issued = Append(@, [query |-> query, answer |-> answer]),
                        !.seen_issues =
                            IF answer = QueryFailed
                            THEN @
                            ELSE MergeItems(@, answer, query.search_type,
                                            args.issue_number)]
    /\ UNCHANGED <<board, call, sweep, ncalls, args>>

ReturnSimilarIssues ==
    /\ ret.pc = "run"
    /\ Len(ret.issued) = Len(QueriesToRun(ret.queries, DefaultMaxSearches))
    /\ ret' = [ret EXCEPT !.pc = "done", !.similar_issues = ret.seen_issues]
    /\ UNCHANGED <<board, call, sweep, ncalls, args>>

NextSearch ==
    \/ BuildQueries
    \/ RunQuery
    \/ ReturnSimilarIssues

SpecSearch == InitSearch /\ [][NextSearch]_vars


(* ---------------------------------------------------------------------- *)
(* Properties of search_for_similar_issues                                 *)
(* ---------------------------------------------------------------------- *)
\* the queries the issue calls for, in priority order: the keywords of the
\* one title with a token that survives the filter, the detected areas, the
\* snippet of the two bodies the error pattern matches
ExpectedQueries ==
    (IF args.title = TitleCrashOnSave
     THEN <<Query("title_keywords", <<"C", "r", "a", "s", "h", " ", "S", "a", "v", "e">>)>>
     ELSE <<>>)
    \o [i \in 1..Len(args.detected_areas) |-> Query("area_label", args.detected_areas[i])]
    \o (IF args.body = ReportFailed
        THEN <<Query("error_pattern", <<":", " ", "d", "i", "s", "k", " ", "f", "u", "l", "l">>)>>
        ELSE IF args.body = ReportPanicShort
        THEN <<Query("error_pattern", <<"a", "b", "c">>)>>
        ELSE <<>>)

IssuedQueries == [i \in 1..Len(ret.issued) |-> ret.issued[i].query]

\* C19: at most max_searches searches are issued, and they are the first
\* entries of the sequence keyword query (if a title token survives the
\* filter), one area query per detected area in order, error-pattern query
\* (if the body matches); a query beyond the cap is never run.
C19_QueriesInOrderUpToCap ==
    (ret.pc # "build") =>
        /\ Len(ret.issued) <= DefaultMaxSearches
        /\ Len(ret.issued) <= Len(ExpectedQueries)
        /\ IssuedQueries = SubSeq(ExpectedQueries, 1, Len(ret.issued))
        /\ (ret.pc = "done") =>
              \/ Len(ret.issued) = Len(ExpectedQueries)
              \/ Len(ret.issued) = DefaultMaxSearches

C19_Witness ==
    /\ ret.pc = "done"
    /\ args.title = TitleCrashOnSave
    /\ args.body = ReportFailed
    /\ args.detected_areas = ManyAreas
    /\ Len(ret.queries) = MaxDetected + 2
    /\ Len(ret.issued) = DefaultMaxSearches
    /\ ret.issued[1].query.search_type = "title_keywords"
    /\ ret.issued[DefaultMaxSearches].query
          = Query("area_label", ManyAreas[DefaultMaxSearches - 1])

\* the searches that returned, and the first of them that returned number
Succeeded == {i \in 1..Len(ret.issued) : ret.issued[i].answer # QueryFailed}
Returning(number) == {i \in Succeeded : number \in Range(ret.issued[i].answer)}
FirstReturning(number) ==
    CHOOSE i \in Returning(number) : \A k \in Returning(number) : i <= k
PlaceIn(answer, number) == CHOOSE k \in 1..Len(answer) : answer[k] = number

\* C20: the result is the first-wins merge, in query order, of the answers of
\* the searches that succeeded: a failed search adds nothing and stops no
\* later search, each number appears once, tagged with the earliest
\* successful search that returned it.
C20_FirstWinsMergeOfSucceeded ==
    (ret.pc = "done") =>
        LET found == ret.similar_issues
        IN  /\ Len(ret.issued) = Len(QueriesToRun(ExpectedQueries, DefaultMaxSearches))
            /\ {found[i].number : i \in 1..Len(found)}
                  = {n \in UNION {Range(ret.issued[i].answer) : i \in Succeeded} :
                        n # args.issue_number}
            /\ \A i, j \in 1..Len(found) : (found[i].number = found[j].number) => (i = j)
            /\ \A i \in 1..Len(found) :
                  found[i].source
                      = ret.issued[FirstReturning(found[i].number)].query.search_type
            /\ \A i, j \in 1..Len(found) :
                  (i < j) =>
                      LET a == FirstReturning(found[i].number)
                          b == FirstReturning(found[j].number)
                      IN  \/ a < b
                          \/ /\ a = b
                             /\ PlaceIn(ret.issued[a].answer, found[i].number)
                                   < PlaceIn(ret.issued[a].answer, found[j].number)

C20_Witness ==
    /\ ret.pc = "done"
    /\ args.issue_number = 99
    /\ Len(ret.issued) = 4
    /\ ret.issued[1].answer = <<2, 3>>
    /\ ret.issued[2].answer = QueryFailed
    /\ ret.issued[3].answer = <<1, 2>>
    /\ ret.issued[4].query.search_type = "error_pattern"
    /\ ret.similar_issues
          = << [number |-> 2, source |-> "title_keywords"],
               [number |-> 3, source |-> "title_keywords"],
               [number |-> 1, source |-> "area_label"] >>

(* ---------------------------------------------------------------------- *)
(* Failures of the lookup, the sweep, and re-classification                *)
(* ---------------------------------------------------------------------- *)
\* the last run was a classify_closed that asked for the candidate timelines
\* and the request failed
LookupFailed ==
    /\ call.op = "classify_closed"
    /\ "find_canonical_among" \in call.invoked
    /\ call.lookup # "ok"

\* the item of the issue of the last run, as the board holds it
ItemOfCall == board[call.issue][1]

\* C21: in the Assist case with at least one parsed suggestion, a failed
\* canonical-duplicate lookup (transport error or GraphQL error) does not
\* propagate out of classify_closed: the record is (Assist, Needs review) with
\* a note, never Auto-classified, and is what the board holds once the board
\* calls have returned.
C21_LookupFailureFallsBack ==
    LookupFailed =>
        /\ call.raised # "find_canonical_among"
        /\ call.record.outcome = "Assist"
        /\ call.record.status = "Needs review"
        /\ call.record.notes # ""
        /\ (call.raised = "") =>
              /\ board[call.issue] # <<>>
              /\ ItemOfCall["Outcome"] = "Assist"
              /\ ItemOfCall["Status"] = "Needs review"
              /\ ItemOfCall["Notes"] = call.record.notes

\* an iteration of the sweep in which a collaborator raised
ItemFailed ==
    /\ sweep.active
    /\ call.op = "classify_open"
    /\ call.raised \in {"is_staff_member", "find_project_item",
                        "get_bot_comment_with_time", "add_project_item",
                        "set_field_value"}

\* C22: a failure while processing one search result (staff lookup, board
\* lookup, comment fetch, board write) never aborts the sweep: the loop moves
\* on to the next result, every result processed so far has been counted
\* exactly once, and when the loop ends added + skipped + errors is the
\* number of search results.
C22_FailureNeverAbortsSweep ==
    /\ [](sweep.active =>
            /\ sweep.next \in 1..(Len(sweep.results) + 1)
            /\ sweep.added + sweep.skipped + sweep.errors = sweep.next - 1
            /\ (sweep.next > Len(sweep.results)) =>
                  (sweep.added + sweep.skipped + sweep.errors = Len(sweep.results)))
    /\ [][(sweep.active /\ sweep.next <= Len(sweep.results)) =>
            /\ sweep'.active
            /\ sweep'.results = sweep.results
            /\ sweep'.next = sweep.next + 1
            /\ sweep'.errors = sweep.errors + (IF call'.raised # "" THEN 1 ELSE 0)
            /\ sweep'.added >= sweep.added
            /\ sweep'.skipped >= sweep.skipped]_vars

\* the first result failed, the second was processed and added, the loop is over
C22_Witness ==
    /\ sweep.active
    /\ Len(sweep.results) = 2
    /\ sweep.next = 3
    /\ sweep.errors = 1
    /\ sweep.added = 1
    /\ call.op = "classify_open"
    /\ call.issue = sweep.results[2]
    /\ call.raised = ""
    /\ board[sweep.results[1]] = <<>>
    /\ board[sweep.results[2]] # <<>>

\* the version deployed at the instant of a comment: v2 from instant 2 on,
\* v1 before
VersionAt(created_at) == IF created_at >= 2 THEN "v2" ELSE "v1"

\* the item classify_open leaves for a comment made at created_at
NoiseItem(created_at) ==
    ("Outcome" :> "Noise") @@ ("Status" :> "Auto-classified") @@ ("Closed as" :> "") @@
    ("Notes" :> "") @@ ("Bot version" :> VersionAt(created_at))

\* the iteration met a Bug or Crash by a non-staff author with a detector comment
Eligible(c) ==
    /\ c.type_name \in {"Bug", "Crash"}
    /\ c.membership \in Memberships
    /\ c.membership # "active"
    /\ c.bot_comment.present

\* C23: an iteration of the classify_open sweep changes the board only at its
\* own search result, and only when the result is a Bug or Crash by a
\* non-staff author, not yet on the board, with a detector comment; when the
\* iteration then returns without an error the item is exactly (Noise,
\* Auto-classified, bot version of the comment); an issue already on the
\* board keeps its item as it was.
C23_SweepWritesOnlyNewNoise ==
    [][(sweep.active /\ sweep.next <= Len(sweep.results)) =>
          LET number == sweep.results[sweep.next]
          IN  /\ \A other \in IssueNumbers \ {number} : board'[other] = board[other]
              /\ (board'[number] # board[number]) =>
                    (Eligible(call') /\ board[number] = <<>>)
              /\ (Eligible(call') /\ board[number] = <<>> /\ call'.raised = "") =>
                    board'[number] = <<NoiseItem(call'.bot_comment.created_at)>>
              /\ (board[number] # <<>>) => (board'[number] = board[number])]_vars

\* a second sweep meets a Crash that the first sweep put on the board, and
\* skips it
C23_Witness ==
    /\ sweep.active
    /\ sweep.skipped = 1
    /\ call.op = "classify_open"
    /\ call.type_name = "Crash"
    /\ call.on_board
    /\ call.raised = ""
    /\ board[call.issue] = <<NoiseItem(2)>>

\* the last run was a classify_closed that found the issue's item on the board
\* and returned after writing a record to it
Reclassified ==
    /\ call.op = "classify_closed"
    /\ call.raised = ""
    /\ call.on_board
    /\ call.record # NoRecord

\* C24: when classify_closed updates an item that is already on the board,
\* every field of the item afterwards holds the value of the newly computed
\* record, and a field the new record leaves empty is empty: an issue recorded
\* as (Success, Needs review, "Author closed as not_planned") and then
\* re-classified as (Success, Auto-classified) ends with an empty Notes field.
C24_UpdateReplacesEveryField ==
    Reclassified =>
        /\ ItemOfCall["Outcome"] = call.record.outcome
        /\ ItemOfCall["Status"] = call.record.status
        /\ ItemOfCall["Closed as"] =
              (IF call.record.closed_as \in VALID_CLOSED_AS_VALUES
               THEN call.record.closed_as ELSE "")
        /\ ItemOfCall["Notes"] = call.record.notes
        /\ ItemOfCall["Bot version"] =
              (IF call.record.bot_comment_time = NoTime
               THEN "" ELSE VersionAt(call.record.bot_comment_time))

====
